---- MODULE Spec2Model ----
(***************************************************************************)
(* Verification model of the teo-media WebGL compositing core:            *)
(*   - TextureManager   (src/lib/webgl/texture-manager-new.ts)             *)
(*   - WebGLRenderer    (src/lib/webgl/webgl-renderer.ts)                  *)
(*   - WebGLCanvasRenderer (src/lib/webgl.ts, the older single-pass one)   *)
(* Three specifications share the variables; each leaves the variables of  *)
(* the other components untouched:                                         *)
(*   Spec          the TextureManager driven directly through its API      *)
(*   RendererSpec  the WebGLRenderer together with the TextureManager it   *)
(*                 constructs in init()                                    *)
(*   RendererLiveSpec  RendererSpec with animation frames that keep firing *)
(*   CanvasSpec    the WebGLCanvasRenderer                                 *)
(* init() is called once on a renderer, as WebGLRendererService and the    *)
(* page component do.                                                      *)
(***************************************************************************)
EXTENDS Integers, Sequences, FiniteSets, TLC

(***************************************************************************)
(* Bounds of the exploration.                                              *)
(***************************************************************************)
\* slots handed to the TextureManager constructor in Spec
MaxSlots == 3
\* gl.createTexture() calls explored (handles are 1..MaxTextures)
MaxTextures == 4
\* image loads that may be in flight at the same time
MaxInflight == 2
\* readings of the wall clock: `new Date()` yields a value in 0..MaxClock
MaxClock == 1
\* cache hits explored per entry (accessCount stays <= MaxAccess)
MaxAccess == 2
\* requestRender() calls explored between two animation frames
MaxRequests == 3
\* init() calls explored on one renderer
MaxInits == 2
\* requestAnimationFrame calls explored on the RenderService
MaxFrames == 3

(***************************************************************************)
(* Program constants.                                                      *)
(***************************************************************************)
\* texture-manager-new.ts:25  private maxMemoryUsage = 200 * 1024 * 1024
maxMemoryUsage == 200 * 1024 * 1024
\* texture-manager-new.ts:352 const objectOverhead = 2048
objectOverhead == 2048
\* texture-manager-new.ts:27 constructor(gl, maxSlots = 32)
DefaultMaxSlots == 32

\* the empty texture slot / the null reference
NULL == 0

\* URLs handed to getTextureForUrl / updateTexture
Urls == {"a", "b", "c", "d"}

\* width and height of the image every URL decodes to: 64 MiB of pixels, so
\* three such images fit the budget and four do not
UrlDim == <<4096, 4096>>

\* HTMLImageElements owned by callers of getTextureForImage; their src is a
\* URL that is also loaded through getTextureForUrl.  Element 1 alone
\* exceeds the budget (256 MiB), element 2 is 120 MiB.  An image created
\* inside loadImageFromUrl is private to the manager; it has id 0.
Images ==
    { [id |-> 1, src |-> "a", width |-> 8192, height |-> 8192],
      [id |-> 2, src |-> "b", width |-> 6144, height |-> 5120] }

VARIABLES
    \* ---- TextureManager (texture-manager-new.ts) ----
    textures,       \* slot -> texture handle or NULL      (this.textures)
    cache,          \* Map<string, CachedTexture> in insertion order (this.cache)
    currentSize,    \* this.currentSize
    maxSlots,       \* this.maxSlots
    \* ---- the GL context ----
    glNextTexture,  \* next handle gl.createTexture() returns
    glDeleted,      \* handles passed to gl.deleteTexture()
    \* ---- environment ----
    now,            \* current reading of `new Date()`
    loads,          \* image loads in flight, in the order they were started
    \* ---- observation of the last completed call ----
    ret,            \* what the last completed call returned or threw
    placeholders,   \* handles created by createPlaceholder
    lruKept,        \* every evictLRU so far removed the entry its scan chose
    lruScenario,    \* progress through the A, B, C, A, D scenario
    \* ---- WebGLRenderer (webgl-renderer.ts) ----
    rendererTextures, \* this.textures is set (TRUE) or still null (FALSE)
    initialized,    \* this.initialized
    needsRender,    \* this.needsRender
    passes,         \* this.passes
    rafPending,     \* callbacks handed to requestAnimationFrame, not yet run
    inits,          \* init() calls made on this instance
    initOutcome,    \* how the last init() call ended
    disposed,       \* destroy() has been called on this instance
    \* ---- observation of the renderer ----
    reqs,           \* requestRender() calls on the initialized renderer
                    \* since the last animation-frame tick
    lastTick,       \* the last tick: requests it served, renders it executed
    unserved,       \* a mutation was made and no frame was drawn since
    lastUpdate,     \* input index and texture of the last updateTexture
                    \* call that resolved with a texture
    \* ---- WebGLCanvasRenderer (webgl.ts) ----
    cvPhase,        \* where init() stands
    cvInitialized,  \* this.initialized
    cvTextures,     \* what textures[0] and textures[1] hold
    cvMixRatio,     \* this.mixRatio, in tenths
    cvDeleted,      \* destroy() deleted the textures
    cvDrawn,        \* the textures and ratio of the last frame drawn
    \* ---- observation of the canvas renderer ----
    cvLatest,       \* per input: URL and outcome of the latest updateTexture
    \* ---- RenderService (core/services/render.ts) ----
    rsGl,           \* this.gl is set
    rsRaf,          \* this.raf: handle of the requested frame, or 0
    rsPending,      \* handles of the callbacks the browser will run
    rsNextHandle,   \* the next handle requestAnimationFrame returns
    rsBg,           \* this.bg
    rsLastFrameAt,  \* stats.lastFrameAt: which kind of call rendered last
    \* ---- observation of the service ----
    rsTick,         \* the last tick: callbacks it ran, renders they made
    \* ---- TextureManager.preload (texture-manager-new.ts:93-96) ----
    plLoads,        \* getTextureForUrl calls of the batch suspended in a load
    plStatus,       \* the promise preload returned
    \* ---- observation of preload ----
    plLog,          \* the batch's settled loads, in the order they settled
    \* ---- TextureService (part_003) ----
    tsGl,           \* this.gl is set
    tsByImage,      \* this.byImage: image id -> TextureRecord
    tsBudgetMB,     \* this.budgetMB
    tsNextHandle,   \* the next handle gl.createTexture returns
    tsLive,         \* textures created and not deleted
    tsRet,          \* how the last call ended
    \* ---- GPU objects of shader-utils.ts, fbo.ts and RenderPass ----
    gpuLive,        \* objects created and not deleted
    gpuNext,        \* the next object name the context hands out
    gpuFbos,        \* the FBO instances constructed and not destroyed
    gpuRet,         \* how the last call ended
    \* ---- UniformManager (uniform-manager.ts) ----
    umProgram,      \* this.program: the fragment shader it was linked from
    umLocations,    \* this.locations: name -> location or "null"
    umValues,       \* the program's uniforms: name -> value last written
    umRet,          \* the last call and what it returned
    \* ---- observation of the UniformManager ----
    umQueries,      \* gl.getUniformLocation calls made, per name
    \* ---- RenderPass (render-pass.ts) and the frame of WebGLRenderer ----
    ppCanvas,       \* width and height of the canvas
    ppFbos,         \* the FBO objects: framebuffer name -> texture and size
    ppPasses,       \* the RenderPass objects, in construction order
    ppNext,         \* the next object name the context hands out
    ppGl,           \* bound framebuffer, viewport, texture units
    ppInitialized,  \* WebGLRenderer.initialized
    ppNeedsRender,  \* WebGLRenderer.needsRender
    ppRaf,          \* frame callbacks scheduled and not yet run
    ppInits,        \* init() calls made
    ppRet,          \* the last call and what it returned
    \* ---- observation of the GL calls ----
    ppLog,          \* the clear and draw calls of the last call
    \* ---- WebGLRendererService (WebGLRendererService.ts) ----
    wsRenderer,     \* this.renderer: NULL or the instance held
    wsInstances,    \* the WebGLRenderer instances made: what init() did
    wsAwaiting,     \* getRenderer calls suspended at `await init()`
    wsRegistered,   \* the instance registered in the service container
    wsRet           \* how the last getRenderer call settled

tmVars == <<textures, cache, currentSize, maxSlots, glNextTexture, glDeleted,
            placeholders>>
obsVars == <<lruKept, lruScenario>>
lifeVars == <<inits, initOutcome, disposed>>
rendererVars == <<rendererTextures, initialized, needsRender, passes,
                  rafPending, inits, initOutcome, disposed, reqs, lastTick,
                  unserved,
                  lastUpdate>>
canvasVars == <<cvPhase, cvInitialized, cvTextures, cvMixRatio, cvDeleted,
                cvDrawn, cvLatest>>
serviceVars == <<rsGl, rsRaf, rsPending, rsNextHandle, rsBg, rsLastFrameAt,
                 rsTick>>
\* the variables of the components added after the renderers
preloadVars == <<plLoads, plStatus, plLog>>
textureServiceVars == <<tsGl, tsByImage, tsBudgetMB, tsNextHandle, tsLive,
                        tsRet>>
gpuVars == <<gpuLive, gpuNext, gpuFbos, gpuRet>>
\* the variables of TextureService and of the GPU object table
uniformVars == <<umProgram, umLocations, umValues, umRet, umQueries>>
passVars == <<ppCanvas, ppFbos, ppPasses, ppNext, ppGl, ppInitialized,
              ppNeedsRender, ppRaf, ppInits, ppRet, ppLog>>
rendererServiceVars == <<wsRenderer, wsInstances, wsAwaiting, wsRegistered,
                         wsRet>>
laterVars == <<textureServiceVars, gpuVars, uniformVars, passVars,
               rendererServiceVars>>
restVars == <<serviceVars, preloadVars, laterVars>>
nonServiceVars == <<tmVars, now, loads, ret, obsVars, rendererVars, canvasVars,
                    preloadVars, laterVars>>
\* everything but the clock, TextureService and the GPU object table
coreVars == <<tmVars, loads, ret, obsVars, rendererVars, canvasVars,
              serviceVars, preloadVars>>
\* what the TextureService, the GPU object table and the UniformManager
\* each leave alone, the clock aside
tsOtherVars == <<coreVars, gpuVars, uniformVars, passVars,
                 rendererServiceVars>>
gpuOtherVars == <<coreVars, textureServiceVars, uniformVars, passVars,
                  rendererServiceVars>>
umOtherVars == <<coreVars, textureServiceVars, gpuVars, passVars,
                 rendererServiceVars>>
ppOtherVars == <<coreVars, textureServiceVars, gpuVars, uniformVars,
                 rendererServiceVars>>
wsOtherVars == <<coreVars, textureServiceVars, gpuVars, uniformVars,
                 passVars>>
vars == <<textures, cache, currentSize, maxSlots, glNextTexture, glDeleted,
          now, loads, ret, placeholders, lruKept, lruScenario,
          rendererTextures, initialized, needsRender, passes, rafPending,
          inits, initOutcome, disposed, reqs, lastTick, unserved, lastUpdate,
          cvPhase, cvInitialized, cvTextures, cvMixRatio, cvDeleted,
          cvDrawn, cvLatest,
          rsGl, rsRaf, rsPending, rsNextHandle, rsBg, rsLastFrameAt, rsTick,
          plLoads, plStatus, plLog,
          tsGl, tsByImage, tsBudgetMB, tsNextHandle, tsLive, tsRet,
          gpuLive, gpuNext, gpuFbos, gpuRet,
          umProgram, umLocations, umValues, umRet, umQueries,
          ppCanvas, ppFbos, ppPasses, ppNext, ppGl, ppInitialized,
          ppNeedsRender, ppRaf, ppInits, ppRet, ppLog,
          wsRenderer, wsInstances, wsAwaiting, wsRegistered, wsRet>>

(***************************************************************************)
(* Helpers on sequences and sets.                                          *)
(***************************************************************************)
RemoveAt(seq, i) == SubSeq(seq, 1, i - 1) \o SubSeq(seq, i + 1, Len(seq))

MinOf(S) == CHOOSE x \in S : \A y \in S : x <= y

(***************************************************************************)
(* The TextureManager as a value: the synchronous methods are operators    *)
(* from manager state to manager state.                                    *)
(***************************************************************************)
TM ==
    [ textures     |-> textures,
      cache        |-> cache,
      currentSize  |-> currentSize,
      maxSlots     |-> maxSlots,
      nextTexture  |-> glNextTexture,
      deleted      |-> glDeleted,
      placeholders |-> placeholders,
      evictions    |-> <<>> ]

\* new TextureManager(gl, n): n empty slots, empty cache
NewTextureManager(n) ==
    [ textures     |-> [i \in 0..(n - 1) |-> NULL],
      cache        |-> <<>>,
      currentSize  |-> 0,
      maxSlots     |-> n ]

SetTM(t) ==
    /\ textures' = t.textures
    /\ cache' = t.cache
    /\ currentSize' = t.currentSize
    /\ maxSlots' = t.maxSlots
    /\ glNextTexture' = t.nextTexture
    /\ glDeleted' = t.deleted
    /\ placeholders' = t.placeholders

\* this.textures.length
NumSlots(t) == Cardinality(DOMAIN t.textures)

\* index in the Map order of the entry stored under url, 0 if none
CacheIndex(c, url) ==
    IF \E i \in 1..Len(c) : c[i].url = url
    THEN CHOOSE i \in 1..Len(c) : c[i].url = url
    ELSE 0

\* Map.set: an existing key keeps its position, a new key goes last
MapSet(c, url, entry) ==
    IF CacheIndex(c, url) = 0
    THEN Append(c, entry)
    ELSE [c EXCEPT ![CacheIndex(c, url)] = entry]

estimateImageSize(image) ==
    LET pixelCount == image.width * image.height
        imageDataSize == pixelCount * 4
    IN  imageDataSize + objectOverhead

\* variant: the lowest slot is handed out whether it is free or not
findAvailableSlot_lowest(t) == MinOf(DOMAIN t.textures)

findAvailableSlot(t) ==
    LET free == {i \in DOMAIN t.textures : t.textures[i] = NULL}
    IN  IF free = {} THEN -1 ELSE MinOf(free)

releaseTexture(t, slot) ==
    IF slot < 0 \/ slot >= NumSlots(t)
    THEN t
    ELSE
        LET texture == t.textures[slot]
            t1 == IF texture # NULL
                  THEN [t EXCEPT !.deleted = @ \cup {texture},
                                 !.textures[slot] = NULL]
                  ELSE t
            hits == {i \in 1..Len(t1.cache) : t1.cache[i].slot = slot}
        IN  IF hits = {}
            THEN t1
            ELSE LET i == MinOf(hits)
                 IN  [t1 EXCEPT !.cache = RemoveAt(@, i),
                                !.currentSize = @ - t1.cache[i].size]

\* the loop of evictLRU: position of the entry the scan ends on
RECURSIVE OldestFrom(_, _, _)
OldestFrom(c, i, oldest) ==
    IF i > Len(c) THEN oldest
    ELSE IF oldest = 0 \/ c[i].lastAccessed < c[oldest].lastAccessed
         THEN OldestFrom(c, i + 1, i)
         ELSE OldestFrom(c, i + 1, oldest)

evictLRU(t) ==
    LET oldest == OldestFrom(t.cache, 1, 0)
    IN  IF oldest # 0
        THEN LET t1 == releaseTexture(t, t.cache[oldest].slot)
             IN  [t1 EXCEPT !.evictions =
                      Append(@, [before |-> t.cache, after |-> t1.cache])]
        ELSE t

\* variant: a single eviction instead of the loop
enforceMemoryLimits_once(t) ==
    IF t.currentSize > maxMemoryUsage /\ Len(t.cache) > 0
    THEN evictLRU(t)
    ELSE t

RECURSIVE enforceMemoryLimits(_)
enforceMemoryLimits(t) ==
    IF t.currentSize > maxMemoryUsage /\ Len(t.cache) > 0
    THEN enforceMemoryLimits(evictLRU(t))
    ELSE t

\* result of createTextureFromImage: the manager afterwards and what the
\* promise settles to
createTextureAtSlot(t, url, image, slot, time) ==
    LET existing == t.textures[slot]
        texture == IF existing # NULL THEN existing ELSE t.nextTexture
        t1 == IF existing # NULL
              THEN t
              ELSE [t EXCEPT !.textures[slot] = t.nextTexture,
                             !.nextTexture = @ + 1]
        size == estimateImageSize(image)
        cachedTexture ==
            [ url |-> url, image |-> image.id, texture |-> texture,
              slot |-> slot, lastAccessed |-> time, accessCount |-> 1,
              size |-> size ]
        t2 == [t1 EXCEPT !.cache = MapSet(@, url, cachedTexture),
                         !.currentSize = @ + size]
    IN  [ tm |-> enforceMemoryLimits(t2), ok |-> TRUE,
          texture |-> texture, slot |-> slot ]

\* variant: when eviction frees no slot the lowest slot is taken over
createTextureFromImage_steal(t, url, image, time) ==
    LET slot == findAvailableSlot(t)
    IN  IF slot = -1
        THEN LET t1 == evictLRU(t)
                 newSlot == findAvailableSlot(t1)
             IN  IF newSlot = -1
                 THEN createTextureAtSlot(releaseTexture(t1, 0), url, image,
                                          0, time)
                 ELSE createTextureAtSlot(t1, url, image, newSlot, time)
        ELSE createTextureAtSlot(t, url, image, slot, time)

createTextureFromImage(t, url, image, time) ==
    LET slot == findAvailableSlot(t)
    IN  IF slot = -1
        THEN LET t1 == evictLRU(t)
                 newSlot == findAvailableSlot(t1)
             IN  IF newSlot = -1
                 THEN [ tm |-> t1, ok |-> FALSE, texture |-> NULL, slot |-> -1 ]
                 ELSE createTextureAtSlot(t1, url, image, newSlot, time)
        ELSE createTextureAtSlot(t, url, image, slot, time)

\* the cache-hit branch of getTextureForUrl (lines 55-57) and of
\* getTextureForImage (lines 79-81) on the entry at position i
cacheHit(t, i, time) ==
    [t EXCEPT !.cache[i].lastAccessed = time,
              !.cache[i].accessCount = @ + 1]

\* variant: the slot is overwritten without releasing what it held
createPlaceholder_norelease(t, slot) ==
    [t EXCEPT !.textures[slot] = t.nextTexture,
              !.nextTexture = @ + 1,
              !.placeholders = @ \cup {t.nextTexture}]

\* createPlaceholder past its range check
createPlaceholder(t, slot) ==
    LET t1 == releaseTexture(t, slot)
    IN  [t1 EXCEPT !.textures[slot] = t1.nextTexture,
                   !.nextTexture = @ + 1,
                   !.placeholders = @ \cup {t1.nextTexture}]

\* getStats().memoryUsage
memoryUsage == currentSize

\* keys resident in the cache
Resident(c) == {c[i].url : i \in 1..Len(c)}

(***************************************************************************)
(* What a call returned: the settled promise of the last completed call.   *)
(***************************************************************************)
NoReturn == [status |-> "none", texture |-> NULL, slot |-> -1]

Resolved(texture, slot) ==
    [status |-> "resolved", texture |-> texture, slot |-> slot]

Rejected == [status |-> "rejected", texture |-> NULL, slot |-> -1]

Settled(res) ==
    IF res.ok THEN Resolved(res.texture, res.slot) ELSE Rejected

(***************************************************************************)
(* Observation of evictions.                                               *)
(***************************************************************************)
\* the resident entry with the smallest lastAccessed, the earliest inserted
\* one among equals
LruIndex(c) ==
    CHOOSE i \in 1..Len(c) :
        \A j \in 1..Len(c) :
            \/ c[i].lastAccessed < c[j].lastAccessed
            \/ c[i].lastAccessed = c[j].lastAccessed /\ i <= j

\* every evictLRU run of a call removed exactly that entry
RemovedLru(evs) ==
    \A k \in 1..Len(evs) :
        evs[k].after = RemoveAt(evs[k].before, LruIndex(evs[k].before))

\* Progress through the scenario of the LRU test: load a, b, c in that
\* order, access a, load d with exactly one eviction.  Any other call that
\* touches the cache abandons the scenario (-1).
ScenarioKeys == <<"a", "b", "c", "a", "d">>

ScenarioStep(s, url, hit, nEvictions) ==
    IF s \in 0..4
       /\ url = ScenarioKeys[s + 1]
       /\ hit = (s = 3)
       /\ nEvictions = (IF s = 4 THEN 1 ELSE 0)
    THEN s + 1
    ELSE -1

(***************************************************************************)
(* The WebGLRenderer (webgl-renderer.ts) with its passes (render-pass.ts)  *)
(* and their uniforms (uniform-manager.ts).                                *)
(***************************************************************************)
\* the uniforms each fragment shader declares
ProgramUniforms(fragment) ==
    IF fragment = "sample-fragment"
    THEN {"u_texture0", "u_canvasResolution"}
    ELSE IF fragment = "aspect-fragment"
    THEN {"u_texture", "u_texResolution", "u_canvasResolution"}
    ELSE {"u_texture0", "u_texture1", "u_mixRatio"}

\* new RenderPass(gl, vertexSource, fragmentSource, sources, destination)
NewRenderPass(fragment, sources, destination) ==
    [ fragment |-> fragment, sources |-> sources,
      destination |-> destination,
      locations |-> {},          \* names in UniformManager.locations
      values |-> <<>> ]          \* what was written to the program's uniforms

\* UniformManager.has(name)
has(pass, name) == name \in pass.locations

\* UniformManager.setFloat / setVec2 / setInt: the location is looked up and
\* cached, the value is written when the program has the uniform
setUniform(pass, name, value) ==
    [pass EXCEPT !.locations = @ \cup {name},
                 !.values = IF name \in ProgramUniforms(pass.fragment)
                            THEN (name :> value) @@ @
                            ELSE @]

SamplerName(i) == <<"u_texture0", "u_texture1">>[i + 1]

\* RenderPass.draw(): source i goes to texture unit i, u_texture<i> = i
RECURSIVE BindSources(_, _)
BindSources(pass, i) ==
    IF i >= Len(pass.sources) THEN pass
    ELSE BindSources(setUniform(pass, SamplerName(i), i), i + 1)

draw(pass) == BindSources(pass, 0)

\* the texture the pipeline samples for input `index`: bgTex is source 0 of
\* pass 0, fgTex is source 1 of pass 1 (init, lines 38-55)
InputSource(ps, index) ==
    IF index = 0 THEN ps[1].sources[1] ELSE ps[2].sources[2]

\* input indices handed to updateTexture: the two declared inputs and one
\* index outside the declared range
Indices == {0, 1, 2}
InputRange == {0, 1}

\* values handed to setMixValue, in tenths
MixInputs == {3, 12}

\* URLs handed to WebGLRenderer.updateTexture
RendererUrls == {"a"}

\* the renderer as a value
R ==
    [ initialized |-> initialized,
      needsRender |-> needsRender,
      passes      |-> passes,
      rafPending  |-> rafPending,
      unserved    |-> unserved,
      draws       |-> 0 ]       \* frames drawn during the step

SetR(r) ==
    /\ initialized' = r.initialized
    /\ needsRender' = r.needsRender
    /\ passes' = r.passes
    /\ rafPending' = r.rafPending
    /\ unserved' = r.unserved

\* variant: the callback is scheduled but the flag is not raised
requestRender_unflagged(r) ==
    IF ~r.needsRender
    THEN [r EXCEPT !.rafPending = @ + 1]
    ELSE r

\* requestRender(): lines 82-90
requestRender(r) ==
    IF ~r.needsRender
    THEN [r EXCEPT !.needsRender = TRUE, !.rafPending = @ + 1]
    ELSE r

\* render(): lines 92-109
render(r) ==
    IF ~r.initialized \/ ~r.needsRender
    THEN r
    ELSE [r EXCEPT !.passes = [i \in DOMAIN @ |-> draw(@[i])],
                   !.draws = @ + 1,
                   !.unserved = FALSE,
                   !.needsRender = FALSE]

\* variant: the callback lowers the flag and draws nothing
FrameCallback_norender(r) == [r EXCEPT !.needsRender = FALSE]

\* the callback of requestRender: lines 85-88
FrameCallback(r) == [render(r) EXCEPT !.needsRender = FALSE]

RECURSIVE RunCallbacks(_, _)
RunCallbacks(r, n) ==
    IF n = 0 THEN r ELSE RunCallbacks(FrameCallback(r), n - 1)

\* a mutation of an initialized pipeline waits for a frame
Mutated(r) == [r EXCEPT !.unserved = @ \/ r.initialized]

\* room for one more requestRender() call before the next tick, counting
\* the call every updateTexture in flight makes when it resumes
RequestBudget == reqs + Len(loads) < MaxRequests

\* requestRender() calls counted between ticks
Requested == IF initialized THEN reqs + 1 ELSE reqs

\* variant: the value goes to the first pass only
setMixValue_first(r, value) ==
    requestRender(
        [r EXCEPT !.passes =
            [i \in DOMAIN @ |->
                IF i = 1 THEN setUniform(@[i], "u_mixRatio", value)
                ELSE @[i]]])

\* variant: every call schedules a frame, whatever the flag says
setMixValue_always(r, value) ==
    [r EXCEPT !.passes =
                  [i \in DOMAIN @ |->
                      IF has(@[i], "u_mixRatio")
                      THEN setUniform(@[i], "u_mixRatio", value)
                      ELSE @[i]],
              !.needsRender = TRUE,
              !.rafPending = @ + 1]

\* setMixValue(value): lines 66-73
setMixValue(r, value) ==
    requestRender(
        [r EXCEPT !.passes =
            [i \in DOMAIN @ |->
                IF has(@[i], "u_mixRatio")
                THEN setUniform(@[i], "u_mixRatio", value)
                ELSE @[i]]])

\* ---- constants and constructor state of the WebGLCanvasRenderer ----
\* URLs handed to WebGLCanvasRenderer.updateTexture
CanvasUrls == {"a", "b"}

\* the mix ratio is kept in tenths: 0.5 is 5, the range [0, 1] is 0..10
MixScale == 10
DefaultMix == 5

\* Math.max(0, Math.min(1, value)): line 251
ClampMix(value) ==
    IF value < 0 THEN 0 ELSE IF value > MixScale THEN MixScale ELSE value

\* the state after the constructor: lines 2-18
CanvasConstructed ==
    /\ cvPhase = "constructed"
    /\ cvInitialized = FALSE
    /\ cvTextures = [s \in InputRange |-> "null"]
    /\ cvMixRatio = DefaultMix
    /\ cvDeleted = FALSE
    /\ cvDrawn = <<>>
    /\ cvLatest = [s \in InputRange |-> [url |-> "none", status |-> "none"]]

\* the promise of an async method that returned without a value
Returned == Resolved(NULL, -1)

\* backgrounds handed to setBackground
Backgrounds == {"transparent", "color"}

\* the state after construction: lines 36-50
ServiceConstructed ==
    /\ rsGl = FALSE
    /\ rsRaf = 0
    /\ rsPending = {}
    /\ rsNextHandle = 1
    /\ rsBg = "transparent"
    /\ rsLastFrameAt = "none"
    /\ rsTick = [callbacks |-> 0, renders |-> 0]

\* the components added after the renderers, as constructed
\* no preload has been called
PreloadConstructed ==
    /\ plLoads = <<>>
    /\ plStatus = "none"
    /\ plLog = <<>>

\* a TextureService after construction: part_003 lines 32-39
TextureServiceConstructed ==
    /\ tsGl = FALSE
    /\ tsByImage = <<>>
    /\ tsBudgetMB = 256
    /\ tsNextHandle = 1
    /\ tsLive = {}
    /\ tsRet = "none"

\* a fresh WebGL context: no object exists
GpuConstructed ==
    /\ gpuLive = {}
    /\ gpuNext = 1
    /\ gpuFbos = {}
    /\ gpuRet = [op |-> "none", status |-> "none", warned |-> FALSE]

\* names handed to the UniformManager: three that shaders declare and one
\* that none does
UmNames == {"u_mixRatio", "u_texture0", "u_canvasResolution", "u_missing"}

\* no UniformManager exists yet
UniformConstructed ==
    /\ umProgram = "none"
    /\ umLocations = <<>>
    /\ umValues = <<>>
    /\ umRet = [op |-> "none", name |-> "none", loc |-> "null"]
    /\ umQueries = [n \in UmNames |-> 0]

\* sizes of FBOs and of the canvas under PassSpec and FrameSpec
FboSizes == {<<1, 2>>, <<2, 1>>}
CanvasSizes == FboSizes \cup {<<2, 2>>}

\* a canvas with a WebGL2 context on which nothing was done yet: the
\* default framebuffer is bound, no texture is bound to a unit
PassesConstructed ==
    /\ ppCanvas = [width |-> 2, height |-> 2]
    /\ ppFbos = <<>>
    /\ ppPasses = <<>>
    /\ ppNext = 1
    /\ ppGl = [framebuffer |-> 0, viewport |-> <<2, 2>>, active |-> 0,
               units |-> [u \in {0, 1} |-> NULL]]
    /\ ppInitialized = FALSE
    /\ ppNeedsRender = TRUE
    /\ ppRaf = 0
    /\ ppInits = 0
    /\ ppRet = [op |-> "none", value |-> NULL]
    /\ ppLog = <<>>

\* new WebGLRendererService(): no renderer held
RendererServiceConstructed ==
    /\ wsRenderer = NULL
    /\ wsInstances = <<>>
    /\ wsAwaiting = <<>>
    /\ wsRegistered = NULL
    /\ wsRet = [status |-> "none", renderer |-> NULL]

RestConstructed ==
    /\ ServiceConstructed
    /\ PreloadConstructed
    /\ TextureServiceConstructed
    /\ GpuConstructed
    /\ UniformConstructed
    /\ PassesConstructed
    /\ RendererServiceConstructed

\* the state of a WebGLRenderer after its constructor (lines 11-22)
RendererConstructed ==
    /\ rendererTextures = FALSE
    /\ initialized = FALSE
    /\ needsRender = TRUE
    /\ passes = <<>>
    /\ rafPending = 0
    /\ inits = 0
    /\ initOutcome = "none"
    /\ disposed = FALSE
    /\ reqs = 0
    /\ lastTick = [reqs |-> 0, draws |-> 0]
    /\ unserved = FALSE
    /\ lastUpdate = [index |-> -1, texture |-> NULL]

\* no continuation of an `await` is waiting: the microtask queue is empty
NoResume == \A i \in 1..Len(loads) : ~loads[i].hit

RInit ==
    /\ textures = NewTextureManager(DefaultMaxSlots).textures
    /\ cache = <<>>
    /\ currentSize = 0
    /\ maxSlots = DefaultMaxSlots
    /\ glNextTexture = 1
    /\ glDeleted = {}
    /\ placeholders = {}
    /\ now = 0
    /\ loads = <<>>
    /\ ret = NoReturn
    /\ lruKept = TRUE
    /\ lruScenario = 0
    /\ RendererConstructed
    /\ CanvasConstructed
    /\ RestConstructed

\* the TextureManager and the placeholders init() creates: lines 32-39
InitTextures ==
    createPlaceholder(
        createPlaceholder(
            [TM EXCEPT !.textures = NewTextureManager(DefaultMaxSlots).textures,
                       !.cache = <<>>,
                       !.currentSize = 0,
                       !.maxSlots = DefaultMaxSlots,
                       !.placeholders = {}],
            0),
        1)

\* init() replaces this.textures (line 32): the calls in flight belong to
\* the manager that was replaced
Orphan(ls) ==
    [k \in 1..Len(ls) |-> [ls[k] EXCEPT !.old = TRUE, !.index = -1]]

\* init() runs to its end: lines 24-64
InitRuns ==
    /\ inits' = inits + 1
    /\ initOutcome' = "ready"
    /\ loads' = Orphan(loads)
    /\ LET t == InitTextures
           bgTex == t.textures[0]
           fgTex == t.textures[1]
           fboTexture == t.nextTexture
           pass0 == setUniform(
                        NewRenderPass("sample-fragment", <<bgTex>>, "fbo"),
                        "u_canvasResolution", "canvas")
           pass1 == setUniform(
                        NewRenderPass("mix-simple-fragment",
                                      <<fboTexture, fgTex>>, "canvas"),
                        "u_mixRatio", 5)
       IN  /\ SetTM([t EXCEPT !.nextTexture = @ + 1])
           /\ SetR(render([R EXCEPT !.passes = @ \o <<pass0, pass1>>,
                                    !.initialized = TRUE]))
    /\ rendererTextures' = TRUE
    /\ ret' = Returned
    /\ lastUpdate' = [index |-> -1, texture |-> NULL]
    /\ UNCHANGED <<now, obsVars, disposed, reqs, lastTick, canvasVars, restVars>>

\* where init() can throw: at the context check (line 28), or while a
\* RenderPass compiles and links its program (line 46 or 49)
InitStages == {"context", "pass"}

\* variant: the flag is raised before the passes are built
InitThrows_ready(stage) ==
    /\ inits' = inits + 1
    /\ initOutcome' = "failed"
    /\ ret' = Rejected
    /\ initialized' = TRUE
    /\ IF stage = "context"
       THEN UNCHANGED <<tmVars, loads, rendererTextures, lastUpdate>>
       ELSE /\ loads' = Orphan(loads)
            /\ SetTM([InitTextures EXCEPT !.nextTexture = @ + 1])
            /\ rendererTextures' = TRUE
            /\ lastUpdate' = [index |-> -1, texture |-> NULL]
    /\ UNCHANGED <<now, obsVars, needsRender, passes, rafPending,
                   disposed, reqs, lastTick, unserved, canvasVars, restVars>>

\* init() throws: lines 24-49.  At the pass stage the manager, the
\* placeholders and the FBO exist already; no pass was pushed
InitThrows(stage) ==
    /\ inits' = inits + 1
    /\ initOutcome' = "failed"
    /\ ret' = Rejected
    /\ IF stage = "context"
       THEN UNCHANGED <<tmVars, loads, rendererTextures, lastUpdate>>
       ELSE /\ loads' = Orphan(loads)
            /\ SetTM([InitTextures EXCEPT !.nextTexture = @ + 1])
            /\ rendererTextures' = TRUE
            /\ lastUpdate' = [index |-> -1, texture |-> NULL]
    /\ UNCHANGED <<now, obsVars, initialized, needsRender, passes, rafPending,
                   disposed, reqs, lastTick, unserved, canvasVars, restVars>>

\* the one init() call its callers make on a new renderer
RendererInit == inits = 0 /\ InitRuns

RendererInitFails == inits = 0 /\ \E stage \in InitStages : InitThrows(stage)

\* init() called again on a renderer that is not running: a retry after a
\* failure, or a call after destroy()
CanInitAgain ==
    /\ inits \in 1..(MaxInits - 1)
    /\ ~initialized

RendererInitAgain == CanInitAgain /\ InitRuns

RendererInitAgainFails ==
    CanInitAgain /\ \E stage \in InitStages : InitThrows(stage)

\* setMixValue(value)
SetMixValue(value) ==
    /\ RequestBudget
    /\ SetR(setMixValue(Mutated(R), value))
    /\ reqs' = Requested
    /\ UNCHANGED <<tmVars, now, loads, ret, obsVars, rendererTextures,
                   lifeVars, lastTick, lastUpdate, canvasVars, restVars>>

\* requestRender() called directly
RequestRender ==
    /\ RequestBudget
    /\ SetR(requestRender(R))
    /\ reqs' = Requested
    /\ UNCHANGED <<tmVars, now, loads, ret, obsVars, rendererTextures,
                   lifeVars, lastTick, lastUpdate, canvasVars, restVars>>

\* updateTexture(index, url) up to its `await`: lines 75-77
UpdateTexture(index, url) ==
    IF ~rendererTextures
    THEN /\ ret' = Resolved(NULL, -1)
         /\ UNCHANGED <<tmVars, now, loads, obsVars, rendererVars, canvasVars, restVars>>
    ELSE /\ Len(loads) < MaxInflight
         /\ RequestBudget
         /\ IF CacheIndex(cache, url) # 0
            THEN /\ cache[CacheIndex(cache, url)].accessCount < MaxAccess
                 /\ SetTM(cacheHit(TM, CacheIndex(cache, url), now))
                 /\ loads' = Append(loads,
                        [url |-> url, index |-> index, hit |-> TRUE,
                         old |-> FALSE])
            ELSE /\ loads' = Append(loads,
                        [url |-> url, index |-> index, hit |-> FALSE,
                         old |-> FALSE])
                 /\ UNCHANGED tmVars
         /\ UNCHANGED <<now, ret, obsVars, rendererVars, canvasVars, restVars>>

\* the `await` of a cache hit resumes: requestRender (line 79)
UpdateResumed(i) ==
    /\ i \in 1..Len(loads)
    /\ loads[i].hit
    /\ IF loads[i].old
       THEN /\ ret' = Returned
            /\ UNCHANGED lastUpdate
       ELSE LET entry == cache[CacheIndex(cache, loads[i].url)]
            IN  /\ ret' = Resolved(entry.texture, entry.slot)
                /\ lastUpdate' = [index |-> loads[i].index,
                                  texture |-> entry.texture]
    /\ SetR(requestRender(Mutated(R)))
    /\ reqs' = Requested
    /\ loads' = RemoveAt(loads, i)
    /\ UNCHANGED <<tmVars, now, obsVars, rendererTextures, lifeVars,
                   lastTick, canvasVars, restVars>>

\* the image arrives: createTextureFromImage, then requestRender (line 79)
UpdateLoadResolved(i) ==
    /\ i \in 1..Len(loads)
    /\ ~loads[i].hit
    /\ NoResume
    /\ IF loads[i].old
       THEN \* the replaced manager takes the texture: one more GL texture
            /\ glNextTexture' = glNextTexture + 1
            /\ ret' = Returned
            /\ SetR(requestRender(Mutated(R)))
            /\ reqs' = Requested
            /\ UNCHANGED <<textures, cache, currentSize, maxSlots, glDeleted,
                           placeholders, lastUpdate>>
       ELSE LET url == loads[i].url
                image == [id |-> 0, src |-> url,
                          width |-> UrlDim[1], height |-> UrlDim[2]]
                res == createTextureFromImage(TM, url, image, now)
            IN  /\ SetTM(res.tm)
                /\ ret' = Settled(res)
                /\ IF res.ok
                   THEN /\ SetR(requestRender(Mutated(R)))
                        /\ reqs' = Requested
                        /\ lastUpdate' = [index |-> loads[i].index,
                                          texture |-> res.texture]
                   ELSE UNCHANGED <<initialized, needsRender, passes,
                                    rafPending, unserved, reqs, lastUpdate>>
    /\ loads' = RemoveAt(loads, i)
    /\ UNCHANGED <<now, obsVars, rendererTextures, lifeVars, lastTick,
                   canvasVars, restVars>>

\* the image fails to load: getTextureForUrl rethrows, updateTexture rejects
UpdateLoadRejected(i) ==
    /\ i \in 1..Len(loads)
    /\ ~loads[i].hit
    /\ NoResume
    /\ ret' = Rejected
    /\ loads' = RemoveAt(loads, i)
    /\ UNCHANGED <<tmVars, now, obsVars, rendererVars, canvasVars, restVars>>

\* an animation frame: the callbacks scheduled since the last frame run
Tick ==
    /\ NoResume
    /\ rafPending > 0 \/ reqs > 0
    /\ LET r == RunCallbacks([R EXCEPT !.rafPending = 0], rafPending)
       IN  /\ SetR(r)
           /\ lastTick' = [reqs |-> IF initialized THEN reqs ELSE 0,
                           draws |-> r.draws]
    /\ reqs' = 0
    /\ UNCHANGED <<tmVars, now, loads, ret, obsVars, rendererTextures,
                   lifeVars, lastUpdate, canvasVars, restVars>>

\* destroy(): lines 111-115
Destroy ==
    /\ initialized \/ ~disposed
    /\ disposed' = TRUE
    /\ initialized' = FALSE
    /\ passes' = <<>>
    /\ reqs' = 0
    /\ unserved' = FALSE
    /\ UNCHANGED <<tmVars, now, loads, ret, obsVars, rendererTextures,
                   needsRender, rafPending, inits, initOutcome, lastTick,
                   lastUpdate, canvasVars, restVars>>

\* The renderer never compares timestamps: its manager holds at most one
\* entry per URL explored, so `new Date()` reads the same instant throughout;
\* the clock is explored under Spec.
RNext ==
    \/ RendererInit
    \/ RendererInitFails
    \/ \E value \in MixInputs : SetMixValue(value)
    \/ RequestRender
    \/ \E index \in Indices, url \in RendererUrls : UpdateTexture(index, url)
    \/ \E i \in 1..MaxInflight : UpdateResumed(i)
    \/ \E i \in 1..MaxInflight : UpdateLoadResolved(i)
    \/ \E i \in 1..MaxInflight : UpdateLoadRejected(i)
    \/ Tick
    \/ Destroy

RendererSpec == RInit /\ [][RNext]_vars

\* the renderer under callers that may call init() again
LNext ==
    \/ RNext
    \/ RendererInitAgain
    \/ RendererInitAgainFails

LifecycleSpec == RInit /\ [][LNext]_vars

\* ticks keep firing and continuations of `await` run
RendererLiveSpec ==
    /\ RInit /\ [][RNext]_vars
    /\ WF_vars(Tick)
    /\ WF_vars(\E i \in 1..MaxInflight : UpdateResumed(i))

(***************************************************************************)
(* The WebGLCanvasRenderer (webgl.ts): two textures uploaded in place, a   *)
(* clamped mix ratio and a render loop that runs on every animation frame. *)
(***************************************************************************)
CInit ==
    /\ textures = NewTextureManager(DefaultMaxSlots).textures
    /\ cache = <<>>
    /\ currentSize = 0
    /\ maxSlots = DefaultMaxSlots
    /\ glNextTexture = 1
    /\ glDeleted = {}
    /\ placeholders = {}
    /\ now = 0
    /\ loads = <<>>
    /\ ret = NoReturn
    /\ lruKept = TRUE
    /\ lruScenario = 0
    /\ RendererConstructed
    /\ CanvasConstructed
    /\ RestConstructed

\* init() up to its `await`: the program is linked and
\* createPlaceholderTextures has filled both textures (lines 20-118)
CanvasInitStart ==
    /\ cvPhase = "constructed"
    /\ cvPhase' = "awaiting"
    /\ cvTextures' = [s \in InputRange |-> "placeholder"]
    /\ UNCHANGED <<tmVars, now, loads, ret, obsVars, rendererVars, restVars,
                   cvInitialized, cvMixRatio, cvDeleted, cvDrawn, cvLatest>>

\* init() throws before it creates a texture: no WebGL2 context, or a shader
\* that does not compile or link (lines 22, 86-92, 133-144)
CanvasInitFails ==
    /\ cvPhase = "constructed"
    /\ cvPhase' = "failed"
    /\ ret' = Rejected
    /\ UNCHANGED <<tmVars, now, loads, obsVars, rendererVars, restVars, cvInitialized,
                   cvTextures, cvMixRatio, cvDeleted, cvDrawn, cvLatest>>

\* the frame render() draws: lines 255-282
canvasRender(init, drawn, texs, mix) ==
    IF ~init THEN drawn ELSE <<texs[0], texs[1], mix>>

\* init() after its `await`: lines 120-130
CanvasInitDone ==
    /\ cvPhase = "awaiting"
    /\ cvPhase' = "done"
    /\ cvInitialized' = TRUE
    /\ cvDrawn' = canvasRender(TRUE, cvDrawn, cvTextures, cvMixRatio)
    /\ ret' = Returned
    /\ UNCHANGED <<tmVars, now, loads, obsVars, rendererVars, restVars, cvTextures,
                   cvMixRatio, cvDeleted, cvLatest>>

\* an earlier load for the same input is no longer the latest one
Supersede(ls, index) ==
    [k \in 1..Len(ls) |->
        IF ls[k].index = index THEN [ls[k] EXCEPT !.stale = TRUE] ELSE ls[k]]

\* updateTexture(index, url) up to its `await`: lines 201-212
CanvasUpdateTexture(index, url) ==
    IF ~cvInitialized \/ index < 0 \/ index > 1
    THEN /\ ret' = Returned
         /\ UNCHANGED <<tmVars, now, loads, obsVars, rendererVars, canvasVars, restVars>>
    ELSE /\ Len(loads) < MaxInflight
         /\ loads' = Append(Supersede(loads, index),
                            [url |-> url, index |-> index, stale |-> FALSE])
         /\ cvLatest' = [cvLatest EXCEPT
                            ![index] = [url |-> url, status |-> "pending"]]
         /\ UNCHANGED <<tmVars, now, ret, obsVars, rendererVars, restVars, cvPhase,
                        cvInitialized, cvTextures, cvMixRatio, cvDeleted,
                        cvDrawn>>

\* how a load that settles ends the latest call for its input
Settle(latest, load, status) ==
    IF load.stale THEN latest
    ELSE [latest EXCEPT ![load.index].status = status]

\* img.onload: the image is uploaded into textures[index] (lines 214-243);
\* a texture deleted by destroy() can no longer be bound and keeps nothing
CanvasLoadDone(i) ==
    /\ i \in 1..Len(loads)
    /\ cvTextures' =
           IF cvDeleted THEN cvTextures
           ELSE [cvTextures EXCEPT ![loads[i].index] = loads[i].url]
    /\ cvLatest' = Settle(cvLatest, loads[i], "loaded")
    /\ ret' = Returned
    /\ loads' = RemoveAt(loads, i)
    /\ UNCHANGED <<tmVars, now, obsVars, rendererVars, restVars, cvPhase,
                   cvInitialized, cvMixRatio, cvDeleted, cvDrawn>>

\* img.onerror: the rejection is caught and logged (lines 244-246), the
\* method returns normally
CanvasLoadFailed(i) ==
    /\ i \in 1..Len(loads)
    /\ cvLatest' = Settle(cvLatest, loads[i], "failed")
    /\ ret' = Returned
    /\ loads' = RemoveAt(loads, i)
    /\ UNCHANGED <<tmVars, now, obsVars, rendererVars, restVars, cvPhase,
                   cvInitialized, cvTextures, cvMixRatio, cvDeleted, cvDrawn>>

\* setMixValue(value): lines 249-253
CanvasSetMixValue(value) ==
    /\ cvInitialized
    /\ cvMixRatio' = ClampMix(value)
    /\ UNCHANGED <<tmVars, now, loads, ret, obsVars, rendererVars, restVars, cvPhase,
                   cvInitialized, cvTextures, cvDeleted, cvDrawn, cvLatest>>

\* an animation frame of the loop init() started: lines 255-282
CanvasRender ==
    /\ cvPhase = "done"
    /\ cvDrawn' = canvasRender(cvInitialized, cvDrawn, cvTextures, cvMixRatio)
    /\ UNCHANGED <<tmVars, now, loads, ret, obsVars, rendererVars, restVars, cvPhase,
                   cvInitialized, cvTextures, cvMixRatio, cvDeleted, cvLatest>>

\* destroy(): lines 284-292
CanvasDestroy ==
    /\ cvPhase = "done"
    /\ cvInitialized
    /\ cvInitialized' = FALSE
    /\ cvDeleted' = TRUE
    /\ UNCHANGED <<tmVars, now, loads, ret, obsVars, rendererVars, restVars, cvPhase,
                   cvTextures, cvMixRatio, cvDrawn, cvLatest>>

CNext ==
    \/ CanvasInitStart
    \/ CanvasInitFails
    \/ CanvasInitDone
    \/ \E index \in Indices, url \in CanvasUrls : CanvasUpdateTexture(index, url)
    \/ \E i \in 1..MaxInflight : CanvasLoadDone(i)
    \/ \E i \in 1..MaxInflight : CanvasLoadFailed(i)
    \/ \E value \in MixInputs : CanvasSetMixValue(value)
    \/ CanvasRender
    \/ CanvasDestroy

CanvasSpec == CInit /\ [][CNext]_vars

(***************************************************************************)
(* Spec: the TextureManager driven through getTextureForUrl and            *)
(* getTextureForImage.                                                     *)
(***************************************************************************)
Init ==
    /\ textures = NewTextureManager(MaxSlots).textures
    /\ cache = <<>>
    /\ currentSize = 0
    /\ maxSlots = MaxSlots
    /\ glNextTexture = 1
    /\ glDeleted = {}
    /\ placeholders = {}
    /\ now = 0
    /\ loads = <<>>
    /\ ret = NoReturn
    /\ lruKept = TRUE
    /\ lruScenario = 0
    /\ RendererConstructed
    /\ CanvasConstructed
    /\ RestConstructed

\* variant: the hit is not counted
CacheHit_uncounted(i) ==
    /\ cache' = [cache EXCEPT ![i].lastAccessed = now]
    /\ ret' = Resolved(cache[i].texture, cache[i].slot)
    /\ UNCHANGED <<textures, currentSize, maxSlots, glNextTexture,
                   glDeleted, placeholders, canvasVars, restVars>>

\* the cache-hit branch shared by getTextureForUrl (lines 55-59) and
\* getTextureForImage (lines 79-83), on the entry at position i
CacheHit(i) ==
    /\ SetTM(cacheHit(TM, i, now))
    /\ ret' = Resolved(cache[i].texture, cache[i].slot)

\* getTextureForUrl(url), key resident: lines 54-59
GetTextureForUrlHit(url) ==
    /\ CacheIndex(cache, url) # 0
    /\ cache[CacheIndex(cache, url)].accessCount < MaxAccess
    /\ CacheHit(CacheIndex(cache, url))
    /\ lruScenario' = ScenarioStep(lruScenario, url, TRUE, 0)
    /\ UNCHANGED <<now, loads, lruKept, rendererVars, canvasVars, restVars>>

\* getTextureForUrl(url), key not resident: the call suspends in
\* loadImageFromUrl (line 63)
GetTextureForUrlMiss(url) ==
    /\ CacheIndex(cache, url) = 0
    /\ Len(loads) < MaxInflight
    /\ loads' = Append(loads, [url |-> url])
    /\ UNCHANGED <<tmVars, now, ret, obsVars, rendererVars, canvasVars, restVars>>

\* img.onload: the call resumes with the image and runs
\* createTextureFromImage (line 64)
LoadResolved(i) ==
    /\ i \in 1..Len(loads)
    /\ glNextTexture <= MaxTextures
    /\ LET url == loads[i].url
           image == [id |-> 0, src |-> url,
                     width |-> UrlDim[1], height |-> UrlDim[2]]
           res == createTextureFromImage(TM, url, image, now)
       IN  /\ SetTM(res.tm)
           /\ ret' = Settled(res)
           /\ lruKept' = (lruKept /\ RemovedLru(res.tm.evictions))
           /\ lruScenario' =
                  IF res.ok
                  THEN ScenarioStep(lruScenario, url, FALSE,
                                    Len(res.tm.evictions))
                  ELSE lruScenario
    /\ loads' = RemoveAt(loads, i)
    /\ UNCHANGED <<now, rendererVars, canvasVars, restVars>>

\* variant: a slot was claimed for the texture before the image arrived and
\* is not given back when the load fails
LoadRejected_partial(i) ==
    /\ i \in 1..Len(loads)
    /\ glNextTexture <= MaxTextures
    /\ findAvailableSlot(TM) # -1
    /\ textures' = [textures EXCEPT ![findAvailableSlot(TM)] = glNextTexture]
    /\ glNextTexture' = glNextTexture + 1
    /\ ret' = Rejected
    /\ loads' = RemoveAt(loads, i)
    /\ UNCHANGED <<cache, currentSize, maxSlots, glDeleted, placeholders,
                   now, obsVars, rendererVars, canvasVars, restVars>>

\* img.onerror: loadImageFromUrl rejects and the call rethrows (lines 65-68)
LoadRejected(i) ==
    /\ i \in 1..Len(loads)
    /\ ret' = Rejected
    /\ loads' = RemoveAt(loads, i)
    /\ UNCHANGED <<tmVars, now, obsVars, rendererVars, canvasVars, restVars>>

\* getTextureForImage(image): lines 74-88, no suspension point
GetTextureForImage(image) ==
    LET found == {i \in 1..Len(cache) : cache[i].image = image.id}
    IN  /\ IF found # {}
           THEN /\ cache[MinOf(found)].accessCount < MaxAccess
                /\ CacheHit(MinOf(found))
                /\ UNCHANGED lruKept
           ELSE /\ glNextTexture <= MaxTextures
                /\ LET res == createTextureFromImage(TM, image.src, image, now)
                   IN  /\ SetTM(res.tm)
                       /\ ret' = Settled(res)
                       /\ lruKept' = (lruKept /\ RemovedLru(res.tm.evictions))
        /\ lruScenario' = -1
        /\ UNCHANGED <<now, loads, rendererVars, canvasVars, restVars>>

\* time passes: the next `new Date()` reads a later millisecond
AdvanceClock ==
    /\ now < MaxClock
    /\ now' = now + 1
    /\ UNCHANGED <<tmVars, loads, ret, obsVars, rendererVars, canvasVars, restVars>>

Next ==
    \/ \E url \in Urls : GetTextureForUrlHit(url)
    \/ \E url \in Urls : GetTextureForUrlMiss(url)
    \/ \E i \in 1..MaxInflight : LoadResolved(i)
    \/ \E i \in 1..MaxInflight : LoadRejected(i)
    \/ \E image \in Images : GetTextureForImage(image)
    \/ AdvanceClock

Spec == Init /\ [][Next]_vars

(***************************************************************************)
(* Properties of the TextureManager, checked under Spec.                   *)
(***************************************************************************)

\* C1: after every completed getTextureForUrl / getTextureForImage call,
\* getStats().memoryUsage is at most the memory budget maxMemoryUsage.
C1_BudgetInvariant == memoryUsage <= maxMemoryUsage

\* an insertion went over the budget with two other entries resident: the
\* entry in slot 0 was evicted after slots 1 and 2 had been filled, and the
\* two entries that are left fit the budget
C1_Witness ==
    /\ ret.status = "resolved"
    /\ glDeleted = {1}
    /\ textures[0] = NULL /\ textures[1] # NULL /\ textures[2] # NULL
    /\ Len(cache) = 2
    /\ memoryUsage <= maxMemoryUsage
    /\ memoryUsage + estimateImageSize(
           [width |-> UrlDim[1], height |-> UrlDim[2]]) > maxMemoryUsage

\* C2: every eviction removes the resident entry with the smallest
\* lastAccessed (the earliest inserted among equals), and after loading a, b,
\* c in that order, accessing a and loading d with exactly one eviction, the
\* evicted entry is b: the resident keys are {a, c, d}.
C2_LruEvictsB ==
    /\ lruKept
    /\ lruScenario = 5 => Resident(cache) = {"a", "c", "d"}

\* C8: a getTextureForUrl call whose image load fails rejects, and the step
\* that settles it leaves the resident keys, every slot and memoryUsage as
\* they were; more generally no rejected load changes them.
C8_FailedLoadLeavesCache ==
    [][ /\ \A i \in 1..Len(loads) :
               LoadRejected(i) => ret'.status = "rejected"
        /\ (Len(loads') < Len(loads) /\ ret'.status = "rejected")
               => /\ cache' = cache
                  /\ textures' = textures
                  /\ memoryUsage' = memoryUsage ]_vars

\* a load failed while entries were resident
C8_Witness ==
    /\ ret.status = "rejected"
    /\ cache # <<>>
    /\ \A s \in DOMAIN textures :
           textures[s] # NULL => \E i \in 1..Len(cache) : cache[i].slot = s

\* C9: a getTextureForUrl call for a resident key returns the entry's texture
\* and slot, adds exactly one to its accessCount, sets its lastAccessed to the
\* current time, and changes nothing else: no texture is created, no slot
\* changes, the resident keys and memoryUsage stay, the other entries stay.
C9_CacheHitFrame ==
    [][ \A url \in Urls :
            GetTextureForUrlHit(url) =>
                LET i == CacheIndex(cache, url)
                IN  /\ ret' = Resolved(cache[i].texture, cache[i].slot)
                    /\ textures[cache[i].slot] = ret'.texture
                    /\ Len(cache') = Len(cache)
                    /\ cache'[i].accessCount = cache[i].accessCount + 1
                    /\ cache'[i].lastAccessed = now
                    /\ cache'[i].lastAccessed >= cache[i].lastAccessed
                    /\ cache' = [cache EXCEPT
                                    ![i].accessCount = cache'[i].accessCount,
                                    ![i].lastAccessed = cache'[i].lastAccessed]
                    /\ glNextTexture' = glNextTexture
                    /\ glDeleted' = glDeleted
                    /\ textures' = textures
                    /\ Resident(cache') = Resident(cache)
                    /\ memoryUsage' = memoryUsage ]_vars

\* a hit on an entry that was loaded at an earlier time
C9_Witness ==
    \E i \in 1..Len(cache) :
        /\ cache[i].accessCount = 2
        /\ cache[i].lastAccessed = 1
        /\ ret = Resolved(cache[i].texture, cache[i].slot)

(***************************************************************************)
(* Properties of the WebGLRenderer, checked under RendererSpec and         *)
(* RendererLiveSpec.                                                       *)
(***************************************************************************)

\* C4: on an initialized renderer, a tick that follows N >= 1 requestRender
\* calls (direct, or through setMixValue and updateTexture) executes the
\* pass draw sequence exactly once, and no tick executes it more than once.
C4_Coalescing ==
    /\ lastTick.draws <= 1
    /\ lastTick.reqs >= 1 => lastTick.draws = 1

\* a tick served MaxRequests requests with one frame
C4_Witness ==
    /\ initialized
    /\ lastTick = [reqs |-> MaxRequests, draws |-> 1]

\* C5: on an initialized, not destroyed renderer, every setMixValue call and
\* every updateTexture call that resolved with a texture is eventually
\* followed by a draw of all passes, provided ticks keep firing.
C5_NoRenderSkipped ==
    (unserved /\ initialized) ~> (~unserved \/ ~initialized)

\* a frame was drawn at a tick after setMixValue(1.2) and after an
\* updateTexture call had resolved: nothing waits for a frame
C5_Witness ==
    /\ initialized
    /\ ~unserved
    /\ lastTick.draws = 1
    /\ lastUpdate.texture # NULL
    /\ Len(passes) = 2
    /\ passes[2].values["u_mixRatio"] = 12
    /\ \A k \in 1..2 : \A j \in 0..(Len(passes[k].sources) - 1) :
           has(passes[k], SamplerName(j))

\* C6: when updateTexture(index, url) on an initialized renderer resolves
\* with a texture for an index in the input range, the pass source for that
\* index is that texture and the dirty flag is set.
C6_UpdateRebindsSource ==
    [][ \A i \in 1..Len(loads) :
            ( /\ UpdateLoadResolved(i) \/ UpdateResumed(i)
              /\ initialized
              /\ loads[i].index \in InputRange )
            => /\ InputSource(passes', loads[i].index) = lastUpdate'.texture
               /\ needsRender'
      ]_vars

\* C10: updateTexture(index, url) with an index outside the input range
\* raises at the call and starts no load.
C10_OutOfRangeRaises ==
    [][ \A index \in Indices \ InputRange, url \in RendererUrls :
            UpdateTexture(index, url)
            => /\ ret'.status = "rejected"
               /\ loads' = loads
      ]_vars

(***************************************************************************)
(* Properties of the WebGLCanvasRenderer, checked under CanvasSpec.        *)
(***************************************************************************)

\* C3: when a second updateTexture(s, keyB) is called while the load of an
\* earlier updateTexture(s, keyA) is in flight, then once both loads have
\* arrived (in either order) the texture of input s holds keyB.
C3_LastWriterWins ==
    \A s \in InputRange :
        ( /\ cvLatest[s].status = "loaded"
          /\ ~cvDeleted
          /\ \A k \in 1..Len(loads) : loads[k].index # s )
        => cvTextures[s] = cvLatest[s].url

\* C7: when the load behind updateTexture(index, url) fails, the returned
\* promise rejects and the textures, the mix ratio and the frame loop are
\* as they were.
C7_FailureReported ==
    [][ \A i \in 1..Len(loads) :
            CanvasLoadFailed(i)
            => /\ ret'.status = "rejected"
               /\ cvTextures' = cvTextures
               /\ cvMixRatio' = cvMixRatio
               /\ cvDrawn' = cvDrawn
      ]_vars

\* C11: setMixValue(v) clamps v to [0, 1]: the value written to the mix
\* uniform is never below 0 or above 1.
C11_MixClamped ==
    \A k \in 1..Len(passes) :
        "u_mixRatio" \in DOMAIN passes[k].values
        => passes[k].values["u_mixRatio"] \in 0..MixScale

\* C12: the renderer is initialized only after an init() call that acquired
\* the context and built both passes; an init() call that throws rejects,
\* and until init() is called again the renderer is not initialized, has
\* no pass and draws at no tick.
C12_ReadyOnlyAfterPasses ==
    /\ [](initialized =>
            /\ initOutcome = "ready"
            /\ rendererTextures
            /\ Len(passes) = 2)
    /\ [](initOutcome = "failed" => ~initialized /\ passes = <<>>)
    /\ [][ /\ RendererInitFails => ret'.status = "rejected"
           /\ (initOutcome = "failed" /\ Tick) => lastTick'.draws = 0
       ]_vars

\* init() threw while building a pass: manager and placeholders exist, the
\* call rejected, the renderer is not initialized
C12_Witness ==
    /\ initOutcome = "failed"
    /\ ret.status = "rejected"
    /\ rendererTextures
    /\ Cardinality(placeholders) = 2
    /\ ~initialized
    /\ passes = <<>>

\* C13: after destroy() no later operation (ticks, setMixValue,
\* updateTexture, requestRender, init) makes the renderer initialized again
\* or makes it draw.
C13_DisposedTerminal ==
    /\ [](disposed => ~initialized)
    /\ [][ (disposed /\ Tick) => lastTick'.draws = 0 ]_vars

(***************************************************************************)
(* The RenderService (core/services/render.ts): a frame requested through  *)
(* requestAnimationFrame, an immediate renderNow and canvas attachment.    *)
(***************************************************************************)
\* attachCanvas(canvas): lines 69-76
AttachCanvas ==
    /\ rsGl' = TRUE
    /\ UNCHANGED <<rsRaf, rsPending, rsNextHandle, rsBg, rsLastFrameAt, rsTick>>
    /\ UNCHANGED nonServiceVars

\* cancelRAF(): lines 125-128
cancelRAF(pending, raf) == IF raf # 0 THEN pending \ {raf} ELSE pending

\* detachCanvas(): lines 78-83
DetachCanvas ==
    /\ rsPending' = cancelRAF(rsPending, rsRaf)
    /\ rsRaf' = 0
    /\ rsGl' = FALSE
    /\ UNCHANGED <<rsNextHandle, rsBg, rsLastFrameAt, rsTick>>
    /\ UNCHANGED nonServiceVars

\* setBackground(bg): lines 98-100
SetBackground(bg) ==
    /\ rsBg' = bg
    /\ UNCHANGED <<rsGl, rsRaf, rsPending, rsNextHandle, rsLastFrameAt, rsTick>>
    /\ UNCHANGED nonServiceVars

\* requestFrame(): lines 116-119; requestAnimationFrame returns a new
\* non-zero handle
RequestFrame ==
    /\ IF rsRaf # 0
       THEN UNCHANGED <<rsRaf, rsPending, rsNextHandle>>
       ELSE /\ rsNextHandle <= MaxFrames
            /\ rsRaf' = rsNextHandle
            /\ rsPending' = rsPending \cup {rsNextHandle}
            /\ rsNextHandle' = rsNextHandle + 1
    /\ UNCHANGED <<rsGl, rsBg, rsLastFrameAt, rsTick>>
    /\ UNCHANGED nonServiceVars

\* renderNow(): lines 121-123, renderInternal (lines 130-150) with the
\* current time
RenderNow ==
    /\ rsRaf' = 0
    /\ rsLastFrameAt' = IF rsGl THEN "now" ELSE rsLastFrameAt
    /\ UNCHANGED <<rsGl, rsPending, rsNextHandle, rsBg, rsTick>>
    /\ UNCHANGED nonServiceVars

\* an animation frame: every pending callback runs renderInternal
\* (lines 130-150) with the frame time
ServiceTick ==
    /\ rsPending # {}
    /\ rsPending' = {}
    /\ rsRaf' = 0
    /\ rsLastFrameAt' = IF rsGl THEN "tick" ELSE rsLastFrameAt
    /\ rsTick' = [callbacks |-> Cardinality(rsPending),
                  renders |-> IF rsGl THEN Cardinality(rsPending) ELSE 0]
    /\ UNCHANGED <<rsGl, rsNextHandle, rsBg>>
    /\ UNCHANGED nonServiceVars

SInit == CInit

SNext ==
    \/ AttachCanvas
    \/ DetachCanvas
    \/ \E bg \in Backgrounds : SetBackground(bg)
    \/ RequestFrame
    \/ RenderNow
    \/ ServiceTick

ServiceSpec == SInit /\ [][SNext]_vars

\* C14: in RenderService at most one frame callback is pending at any time,
\* at most one scheduled render executes per tick, and requestFrame()
\* schedules a callback only if none is pending.
C14_OneFramePending ==
    /\ [](Cardinality(rsPending) <= 1)
    /\ [](rsTick.renders <= 1)
    /\ [][ (RequestFrame /\ rsPending # {}) => rsPending' = rsPending ]_vars

(***************************************************************************)
(* ManagerSpec: the TextureManager driven through getTextureForUrl,        *)
(* getTextureForImage, createPlaceholder, releaseTexture, setMaxSlots and  *)
(* cleanup.  PreloadSpec: the TextureManager driven through preload.       *)
(***************************************************************************)
\* longest list of keys handed to preload
MaxBatch == 2

\* URL requested through getTextureForUrl under ManagerSpec; the images of
\* getTextureForImage bring the keys "a" and "b"
ManagerUrls == {"a"}

\* keys handed to preload
PreloadUrls == {"a", "b"}

\* slot arguments, the two out-of-range neighbours included
SlotArgs == -1..MaxSlots

\* arguments of setMaxSlots
SlotCounts == 1..MaxSlots

\* lists of keys handed to preload
Batches ==
    UNION {[1..n -> PreloadUrls] : n \in 1..MaxBatch}

\* the loop of setMaxSlots (lines 199-201), from slot i down to slot n
RECURSIVE ReleaseDown(_, _, _)
ReleaseDown(t, i, n) ==
    IF i >= n
    THEN ReleaseDown(releaseTexture(t, i), i - 1, n)
    ELSE t

setMaxSlots(t, n) ==
    LET t1 == IF n < t.maxSlots
              THEN ReleaseDown(t, t.maxSlots - 1, n)
              ELSE t
        len == IF NumSlots(t1) < n THEN n ELSE NumSlots(t1)
    IN  [t1 EXCEPT !.maxSlots = n,
                   !.textures = [i \in 0..(len - 1) |->
                                    IF i \in DOMAIN t1.textures
                                    THEN t1.textures[i]
                                    ELSE NULL]]

\* the loop of cleanup (lines 217-219), from slot i upwards
RECURSIVE ReleaseUp(_, _)
ReleaseUp(t, i) ==
    IF i < NumSlots(t)
    THEN ReleaseUp(releaseTexture(t, i), i + 1)
    ELSE t

cleanup(t) ==
    [ReleaseUp(t, 0) EXCEPT !.cache = <<>>, !.currentSize = 0]

\* urls.map((url) => this.getTextureForUrl(url)), line 94: each call runs
\* to its first await; a resident key is a cache hit, any other key
\* suspends in loadImageFromUrl
RECURSIVE preloadCalls(_, _, _, _)
preloadCalls(t, keys, k, time) ==
    IF k > Len(keys)
    THEN [tm |-> t, suspended |-> <<>>]
    ELSE LET i == CacheIndex(t.cache, keys[k])
             t1 == IF i # 0 THEN cacheHit(t, i, time) ELSE t
             rest == preloadCalls(t1, keys, k + 1, time)
         IN  [tm |-> rest.tm,
              suspended |-> IF i # 0
                            THEN rest.suspended
                            ELSE <<[url |-> keys[k]]>> \o rest.suspended]

\* Promise.allSettled (line 95) over the calls still pending
allSettled(pending) ==
    IF pending = <<>> THEN "resolved" ELSE "pending"

\* preload(urls): lines 93-96, called while no earlier batch is pending
Preload(keys) ==
    /\ plStatus # "pending"
    /\ \A i \in 1..Len(cache) :
           cache[i].accessCount
               + Cardinality({k \in 1..Len(keys) : keys[k] = cache[i].url})
           <= MaxAccess
    /\ LET calls == preloadCalls(TM, keys, 1, now)
       IN  /\ SetTM(calls.tm)
           /\ plLoads' = calls.suspended
           /\ plStatus' = allSettled(calls.suspended)
    /\ plLog' = <<>>
    /\ UNCHANGED <<now, loads, ret, obsVars, rendererVars, canvasVars,
                   serviceVars, laterVars>>

\* img.onload in a call of the batch: the call resumes in
\* createTextureFromImage (line 64) and its promise settles
PreloadLoadResolved(i) ==
    /\ i \in 1..Len(plLoads)
    /\ glNextTexture <= MaxTextures
    /\ LET url == plLoads[i].url
           image == [id |-> 0, src |-> url,
                     width |-> UrlDim[1], height |-> UrlDim[2]]
           res == createTextureFromImage(TM, url, image, now)
       IN  /\ SetTM(res.tm)
           /\ plLog' = Append(plLog, [url |-> url, ok |-> res.ok])
    /\ plLoads' = RemoveAt(plLoads, i)
    /\ plStatus' = allSettled(plLoads')
    /\ UNCHANGED <<now, loads, ret, obsVars, rendererVars, canvasVars,
                   serviceVars, laterVars>>

\* variant: Promise.all, the first failure rejects the batch
PreloadLoadRejected_all(i) ==
    /\ i \in 1..Len(plLoads)
    /\ plLog' = Append(plLog, [url |-> plLoads[i].url, ok |-> FALSE])
    /\ plLoads' = RemoveAt(plLoads, i)
    /\ plStatus' = "rejected"
    /\ UNCHANGED <<tmVars, now, loads, ret, obsVars, rendererVars,
                   canvasVars, serviceVars, laterVars>>

\* img.onerror in a call of the batch: the call rethrows (lines 65-68) and
\* allSettled records the rejection
PreloadLoadRejected(i) ==
    /\ i \in 1..Len(plLoads)
    /\ plLog' = Append(plLog, [url |-> plLoads[i].url, ok |-> FALSE])
    /\ plLoads' = RemoveAt(plLoads, i)
    /\ plStatus' = allSettled(plLoads')
    /\ UNCHANGED <<tmVars, now, loads, ret, obsVars, rendererVars,
                   canvasVars, serviceVars, laterVars>>

\* createPlaceholder(slot, ...): lines 123-161
CreatePlaceholder(slot) ==
    /\ IF slot < 0 \/ slot >= NumSlots(TM)
       THEN /\ ret' = Rejected
            /\ UNCHANGED tmVars
       ELSE /\ glNextTexture <= MaxTextures
            /\ SetTM(createPlaceholder(TM, slot))
            /\ ret' = Returned
    /\ UNCHANGED <<now, loads, obsVars, rendererVars, canvasVars, restVars>>

\* releaseTexture(slot): lines 101-118
ReleaseTexture(slot) ==
    /\ SetTM(releaseTexture(TM, slot))
    /\ ret' = Returned
    /\ UNCHANGED <<now, loads, obsVars, rendererVars, canvasVars, restVars>>

\* setMaxSlots(n): lines 195-210
SetMaxSlots(n) ==
    /\ SetTM(setMaxSlots(TM, n))
    /\ ret' = Returned
    /\ UNCHANGED <<now, loads, obsVars, rendererVars, canvasVars, restVars>>

\* cleanup(): lines 215-224
Cleanup ==
    /\ SetTM(cleanup(TM))
    /\ ret' = Returned
    /\ UNCHANGED <<now, loads, obsVars, rendererVars, canvasVars, restVars>>

MInit == Init

MNext ==
    \/ \E url \in ManagerUrls : GetTextureForUrlHit(url)
    \/ \E url \in ManagerUrls : GetTextureForUrlMiss(url)
    \/ \E i \in 1..MaxInflight : LoadResolved(i)
    \/ \E i \in 1..MaxInflight : LoadRejected(i)
    \/ \E image \in Images : GetTextureForImage(image)
    \/ AdvanceClock
    \/ \E slot \in SlotArgs : CreatePlaceholder(slot)
    \/ \E slot \in SlotArgs : ReleaseTexture(slot)
    \/ \E n \in SlotCounts : SetMaxSlots(n)
    \/ Cleanup

ManagerSpec == MInit /\ [][MNext]_vars

PInit == Init

PNext ==
    \/ \E keys \in Batches : Preload(keys)
    \/ \E i \in 1..MaxBatch : PreloadLoadResolved(i)
    \/ \E i \in 1..MaxBatch : PreloadLoadRejected(i)
    \/ AdvanceClock

PreloadSpec == PInit /\ [][PNext]_vars

(***************************************************************************)
(* C15: preload(keys) settles all: its promise never rejects and resolves  *)
(* only when every load of the batch has settled; a key whose load fails   *)
(* leaves the manager and the other loads of the batch as they were, and   *)
(* every other key whose image arrives while a slot is free and the budget *)
(* has room is inserted in the cache.  Checked under PreloadSpec.          *)
(***************************************************************************)
C15_PreloadSettlesAll ==
    /\ [](plStatus # "rejected")
    /\ [](plStatus = "resolved" => plLoads = <<>>)
    /\ [][ \A i \in 1..MaxBatch :
             /\ PreloadLoadRejected(i) =>
                   /\ plLoads' = RemoveAt(plLoads, i)
                   /\ cache' = cache
                   /\ textures' = textures
             /\ ( /\ PreloadLoadResolved(i)
                  /\ findAvailableSlot(TM) # -1
                  /\ currentSize + UrlDim[1] * UrlDim[2] * 4 + objectOverhead
                         <= maxMemoryUsage ) =>
                   plLoads[i].url \in Resident(cache') ]_vars

\* a batch of two keys resolved after the first key failed and the second
\* was loaded and inserted
C15_Witness ==
    /\ plStatus = "resolved"
    /\ plLog = <<[url |-> "a", ok |-> FALSE], [url |-> "b", ok |-> TRUE]>>
    /\ "b" \in Resident(cache)
    /\ "a" \notin Resident(cache)

(***************************************************************************)
(* C16: no getTextureForUrl or getTextureForImage call, at any of its      *)
(* steps and whatever eviction it runs, deletes a placeholder texture or   *)
(* takes it out of its slot.  Checked under ManagerSpec.                   *)
(***************************************************************************)
C16_PlaceholdersSurviveEviction ==
    [][ ( \/ \E url \in ManagerUrls : GetTextureForUrlHit(url)
          \/ \E url \in ManagerUrls : GetTextureForUrlMiss(url)
          \/ \E i \in 1..MaxInflight : LoadResolved(i)
          \/ \E i \in 1..MaxInflight : LoadRejected(i)
          \/ \E image \in Images : GetTextureForImage(image) ) =>
        \A slot \in DOMAIN textures :
            textures[slot] \in placeholders =>
                /\ textures'[slot] = textures[slot]
                /\ textures[slot] \notin glDeleted' ]_vars

\* a placeholder holds slot 0 and the last call returned a texture that its
\* own over-budget eviction deleted, together with an older entry
C16_Witness ==
    /\ textures[0] \in placeholders
    /\ ret.status = "resolved"
    /\ ret.texture \in glDeleted
    /\ Cardinality(glDeleted) >= 2
    /\ glDeleted \cap placeholders = {}

(***************************************************************************)
(* C18: in every reachable state no two cache entries have the same slot,  *)
(* and the texture of each entry is the one stored in its slot.  Checked   *)
(* under ManagerSpec.                                                      *)
(***************************************************************************)
C18_SlotUnique ==
    /\ \A i, j \in 1..Len(cache) :
           i # j => cache[i].slot # cache[j].slot
    /\ \A i \in 1..Len(cache) :
           /\ cache[i].slot \in DOMAIN textures
           /\ textures[cache[i].slot] = cache[i].texture

\* two entries are resident next to a placeholder, one of them in a slot
\* that was released and taken again
C18_Witness ==
    /\ Len(cache) = 2
    /\ \E slot \in DOMAIN textures : textures[slot] \in placeholders
    /\ \E i \in 1..Len(cache) : \E d \in glDeleted : d < cache[i].texture
    /\ \A slot \in DOMAIN textures : textures[slot] # NULL

(***************************************************************************)
(* TextureServiceSpec: the TextureService of part_003, one texture per     *)
(* image id.                                                               *)
(***************************************************************************)
\* image ids handed to the service
TsImageIds == {1, 2}

\* width and height of the image behind each id: 1 MiB and 4 MiB of pixels
TsDim == <<[width |-> 512, height |-> 512],
           [width |-> 1024, height |-> 1024]>>

\* the `source` argument: a bitmap, a DOM image, or neither
TsSources == {"bitmap", "domImage", "none"}

\* budgets handed to setBudgetMB
TsBudgets == {256, 4, 1}

RECURSIVE SumMB(_, _)
SumMB(byImage, ids) ==
    IF ids = {} THEN 0
    ELSE LET id == CHOOSE x \in ids : TRUE
         IN  (byImage[id].width * byImage[id].height * 4) \div (1024 * 1024)
             + SumMB(byImage, ids \ {id})

\* getStats(): lines 136-140
getStats ==
    [count |-> Cardinality(DOMAIN tsByImage),
     approxMB |-> SumMB(tsByImage, DOMAIN tsByImage)]

\* Map.set / Map.delete on byImage
TsSet(byImage, id, rec) ==
    [k \in DOMAIN byImage \cup {id} |-> IF k = id THEN rec ELSE byImage[k]]

TsDelete(byImage, id) ==
    [k \in DOMAIN byImage \ {id} |-> byImage[k]]

\* setContext(gl): lines 41-43
TsSetContext(gl) ==
    /\ tsGl' = gl
    /\ tsRet' = "returned"
    /\ UNCHANGED <<tsByImage, tsBudgetMB, tsNextHandle, tsLive, now,
                   tsOtherVars>>

\* ensureForImage past the lookup: lines 65-100
ensureCreates(imageId, source) ==
    IF ~tsGl
    THEN /\ tsRet' = "thrown"
         /\ UNCHANGED <<tsByImage, tsNextHandle, tsLive>>
    ELSE /\ tsNextHandle <= MaxTextures
         /\ tsNextHandle' = tsNextHandle + 1
         /\ tsLive' = tsLive \cup {tsNextHandle}
         /\ IF source = "none"
            THEN /\ tsRet' = "thrown"
                 /\ UNCHANGED tsByImage
            ELSE /\ tsByImage' =
                        TsSet(tsByImage, imageId,
                              [width |-> TsDim[imageId].width,
                               height |-> TsDim[imageId].height,
                               glHandle |-> tsNextHandle,
                               lastUsedAt |-> now])
                 /\ tsRet' = "returned"

\* ensureForImage(imageId, source): lines 56-101
EnsureForImage(imageId, source) ==
    /\ IF imageId \in DOMAIN tsByImage
       THEN /\ tsByImage' = [tsByImage EXCEPT ![imageId].lastUsedAt = now]
            /\ tsRet' = "returned"
            /\ UNCHANGED <<tsNextHandle, tsLive>>
       ELSE ensureCreates(imageId, source)
    /\ UNCHANGED <<tsGl, tsBudgetMB, now, tsOtherVars>>

\* updateForImage(imageId, source): lines 103-124
UpdateForImage(imageId, source) ==
    /\ IF imageId \notin DOMAIN tsByImage
       THEN ensureCreates(imageId, source)
       ELSE IF ~tsGl \/ source = "none"
            THEN /\ tsRet' = "thrown"
                 /\ UNCHANGED <<tsByImage, tsNextHandle, tsLive>>
            ELSE /\ tsByImage' = [tsByImage EXCEPT ![imageId].lastUsedAt = now]
                 /\ tsRet' = "returned"
                 /\ UNCHANGED <<tsNextHandle, tsLive>>
    /\ UNCHANGED <<tsGl, tsBudgetMB, now, tsOtherVars>>

\* disposeByImage(imageId): lines 126-131
DisposeByImage(imageId) ==
    /\ tsLive' = IF imageId \in DOMAIN tsByImage /\ tsGl
                 THEN tsLive \ {tsByImage[imageId].glHandle}
                 ELSE tsLive
    /\ tsByImage' = TsDelete(tsByImage, imageId)
    /\ tsRet' = "returned"
    /\ UNCHANGED <<tsGl, tsBudgetMB, tsNextHandle, now, tsOtherVars>>

\* setBudgetMB(mb): lines 133-135
SetBudgetMB(mb) ==
    /\ tsBudgetMB' = mb
    /\ tsRet' = "returned"
    /\ UNCHANGED <<tsGl, tsByImage, tsNextHandle, tsLive, now,
                   tsOtherVars>>

TsInit == Init

TsNext ==
    \/ \E gl \in BOOLEAN : TsSetContext(gl)
    \/ \E id \in TsImageIds : \E source \in TsSources :
           EnsureForImage(id, source)
    \/ \E id \in TsImageIds : \E source \in TsSources :
           UpdateForImage(id, source)
    \/ \E id \in TsImageIds : DisposeByImage(id)
    \/ \E mb \in TsBudgets : SetBudgetMB(mb)
    \/ AdvanceClock

TextureServiceSpec == TsInit /\ [][TsNext]_vars

(***************************************************************************)
(* C17: a setBudgetMB(mb) call with mb below the usage getStats() reports  *)
(* leaves the reported usage at or below mb.  Checked under                *)
(* TextureServiceSpec.                                                     *)
(***************************************************************************)
C17_BudgetEvictsAtOnce ==
    [][ \A mb \in TsBudgets :
          (SetBudgetMB(mb) /\ mb < getStats.approxMB) =>
              getStats'.approxMB <= mb ]_vars

(***************************************************************************)
(* GpuSpec: the GPU objects that createProgram (shader-utils.ts), the FBO  *)
(* class (fbo.ts) and the RenderPass constructor (part_009) create and     *)
(* delete on one WebGL context.                                            *)
(***************************************************************************)
\* object names the context hands out
MaxObjects == 8

\* widths and heights handed to the FBO and RenderPass constructors
FboDims == {0, 2}

\* the context as a value: the live objects and the next name
GPU == [live |-> gpuLive, next |-> gpuNext]

\* gl.createShader / createProgram / createFramebuffer / createTexture / ...
glCreate(g, kind) ==
    [live |-> g.live \cup {[kind |-> kind, id |-> g.next]},
     next |-> g.next + 1]

\* gl.deleteShader / deleteProgram / deleteFramebuffer / deleteTexture
glDelete(g, obj) == [g EXCEPT !.live = @ \ {obj}]

\* the object the last glCreate made
Created(g, kind) == [kind |-> kind, id |-> g.next - 1]

\* gl.checkFramebufferStatus: a zero-sized attachment is incomplete
checkFramebufferStatus(width, height) ==
    IF width > 0 /\ height > 0 THEN "complete" ELSE "incomplete"

\* compileShader(gl, source, type): compiles tells whether the source does
compileShader(g, compiles) ==
    LET g1 == glCreate(g, "shader")
        shader == Created(g1, "shader")
    IN  IF ~compiles
        THEN [gpu |-> glDelete(g1, shader), thrown |-> TRUE, shader |-> shader]
        ELSE [gpu |-> g1, thrown |-> FALSE, shader |-> shader]

\* createProgram(gl, vertexSource, fragmentSource): lines 22-49
createProgram(g, vCompiles, fCompiles, links) ==
    LET v == compileShader(g, vCompiles)
    IN  IF v.thrown THEN [gpu |-> v.gpu, thrown |-> TRUE]
        ELSE
        LET f == compileShader(v.gpu, fCompiles)
        IN  IF f.thrown THEN [gpu |-> f.gpu, thrown |-> TRUE]
            ELSE
            LET g1 == glCreate(f.gpu, "program")
                program == Created(g1, "program")
            IN  IF ~links
                THEN [gpu |-> glDelete(g1, program), thrown |-> TRUE]
                ELSE [gpu |-> glDelete(glDelete(g1, v.shader), f.shader),
                      thrown |-> FALSE]

\* new FBO(gl, width, height): lines 7-34; RenderPass.initFramebuffer makes
\* the same calls (part_009 lines 36-70)
newFBO(g, width, height) ==
    LET g1 == glCreate(g, "framebuffer")
        g2 == glCreate(g1, "texture")
    IN  [gpu |-> g2,
         thrown |-> FALSE,
         warned |-> checkFramebufferStatus(width, height) # "complete",
         instance |-> [fbo |-> Created(g1, "framebuffer"),
                       texture |-> Created(g2, "texture"),
                       width |-> width, height |-> height,
                       storage |-> <<width, height>>]]

\* RenderPass.initQuad: part_009 lines 72-88
initQuad(g) == glCreate(glCreate(g, "vertexArray"), "buffer")

\* how a call ended: op names the call
GpuReturned(op, warned) ==
    [op |-> op, status |-> "returned", warned |-> warned]
GpuThrown(op) == [op |-> op, status |-> "thrown", warned |-> FALSE]

SetGPU(g) ==
    /\ gpuLive' = g.live
    /\ gpuNext' = g.next

\* a call of createProgram
CreateProgram(vCompiles, fCompiles, links) ==
    /\ gpuNext + 2 <= MaxObjects
    /\ LET res == createProgram(GPU, vCompiles, fCompiles, links)
       IN  /\ SetGPU(res.gpu)
           /\ gpuRet' = IF res.thrown
                        THEN GpuThrown("createProgram")
                        ELSE GpuReturned("createProgram", FALSE)
    /\ UNCHANGED <<gpuFbos, now, gpuOtherVars>>

\* new FBO(gl, width, height)
FboConstruct(width, height) ==
    /\ gpuNext + 1 <= MaxObjects
    /\ LET res == newFBO(GPU, width, height)
       IN  /\ SetGPU(res.gpu)
           /\ gpuFbos' = gpuFbos \cup {res.instance}
           /\ gpuRet' = GpuReturned("FBO", res.warned)
    /\ UNCHANGED <<now, gpuOtherVars>>

\* variant: the texture is deleted and a new one takes its place
resize_recreate(g, f, width, height) ==
    LET g1 == glCreate(glDelete(g, f.texture), "texture")
    IN  [gpu |-> g1,
         instance |-> [f EXCEPT !.texture = Created(g1, "texture"),
                                !.width = width, !.height = height,
                                !.storage = <<width, height>>]]

\* fbo.resize(width, height): fbo.ts lines 45-61; texImage2D gives the
\* texture new storage
resize(g, f, width, height) ==
    [gpu |-> g,
     instance |-> [f EXCEPT !.width = width, !.height = height,
                            !.storage = <<width, height>>]]

\* a call of fbo.resize(width, height)
FboResize(f, width, height) ==
    /\ f \in gpuFbos
    /\ LET res == resize(GPU, f, width, height)
       IN  /\ SetGPU(res.gpu)
           /\ gpuFbos' = (gpuFbos \ {f}) \cup {res.instance}
    /\ gpuRet' = GpuReturned("resize", FALSE)
    /\ UNCHANGED <<now, gpuOtherVars>>

\* fbo.destroy(): fbo.ts lines 63-66
FboDestroy(f) ==
    /\ f \in gpuFbos
    /\ SetGPU(glDelete(glDelete(GPU, f.texture), f.fbo))
    /\ gpuFbos' = gpuFbos \ {f}
    /\ gpuRet' = GpuReturned("destroy", FALSE)
    /\ UNCHANGED <<now, gpuOtherVars>>

\* new RenderPass(gl, vertexSource, fragmentSource, width, height):
\* part_009 lines 18-34
RenderPassConstruct(vCompiles, fCompiles, links, width, height) ==
    /\ gpuNext + 6 <= MaxObjects
    /\ LET prog == createProgram(GPU, vCompiles, fCompiles, links)
       IN  IF prog.thrown
           THEN /\ SetGPU(prog.gpu)
                /\ gpuRet' = GpuThrown("RenderPass")
           ELSE LET fb == newFBO(prog.gpu, width, height)
                IN  /\ SetGPU(initQuad(fb.gpu))
                    /\ gpuRet' = GpuReturned("RenderPass", fb.warned)
    /\ UNCHANGED <<gpuFbos, now, gpuOtherVars>>

\* the FBO instances a program can hold
FboInstances ==
    [fbo : [kind : {"framebuffer"}, id : 1..MaxObjects],
     texture : [kind : {"texture"}, id : 1..MaxObjects],
     width : FboDims, height : FboDims, storage : FboDims \X FboDims]

GInit == Init

GNext ==
    \/ \E v, f, l \in BOOLEAN : CreateProgram(v, f, l)
    \/ \E w, h \in FboDims : FboConstruct(w, h)
    \/ \E f \in FboInstances : \E w, h \in FboDims : FboResize(f, w, h)
    \/ \E f \in FboInstances : FboDestroy(f)
    \/ \E v, f, l \in BOOLEAN : \E w, h \in FboDims :
           RenderPassConstruct(v, f, l, w, h)

GpuSpec == GInit /\ [][GNext]_vars

(***************************************************************************)
(* C19: a createProgram call that throws leaves the live GPU objects as    *)
(* they were before the call.  Checked under GpuSpec.                      *)
(***************************************************************************)
C19_NoLeakOnFailure ==
    [][ \A v, f, l \in BOOLEAN :
          (CreateProgram(v, f, l) /\ gpuRet'.status = "thrown") =>
              gpuLive' = gpuLive ]_vars

(***************************************************************************)
(* C20: constructing an FBO with width or height 0 throws and leaves no    *)
(* framebuffer or texture of that FBO allocated.  Checked under GpuSpec.   *)
(***************************************************************************)
C20_IncompleteFatal ==
    [][ \A w, h \in FboDims :
          (FboConstruct(w, h) /\ (w = 0 \/ h = 0)) =>
              /\ gpuRet'.status = "thrown"
              /\ gpuLive' = gpuLive ]_vars

(***************************************************************************)
(* C24: a getTextureForUrl or getTextureForImage call that inserts a new   *)
(* entry and returns a texture leaves that entry resident when it          *)
(* returns.  Checked under Spec.                                           *)
(***************************************************************************)
C24_NotEvictedForItself ==
    [][ /\ \A i \in 1..MaxInflight :
              (LoadResolved(i) /\ ret'.status = "resolved") =>
                  loads[i].url \in Resident(cache')
        /\ \A image \in Images :
              ( /\ GetTextureForImage(image)
                /\ \A k \in 1..Len(cache) : cache[k].image # image.id
                /\ ret'.status = "resolved" ) =>
                  image.src \in Resident(cache') ]_vars

(***************************************************************************)
(* C22: in every reachable state of the renderer, setMixValue(v) called    *)
(* twice in a row leaves the passes' uniforms, the needsRender flag and    *)
(* the number of scheduled frame callbacks as one call does.  Checked      *)
(* under RendererSpec.                                                     *)
(***************************************************************************)
C22_SetMixIdempotent ==
    \A v \in MixInputs :
        LET once == setMixValue(R, v)
            twice == setMixValue(once, v)
        IN  /\ twice.passes = once.passes
            /\ twice.needsRender = once.needsRender
            /\ twice.rafPending = once.rafPending

\* the renderer is ready, no frame is requested, and the mix pass holds a
\* value an earlier setMixValue wrote: the next call writes the uniform and
\* schedules a frame
C22_Witness ==
    /\ initialized
    /\ ~needsRender
    /\ rafPending = 0
    /\ Len(passes) = 2
    /\ passes[2].values["u_mixRatio"] = 12
    /\ setMixValue(R, 3).rafPending = 1
    /\ setMixValue(R, 3).passes # passes

(***************************************************************************)
(* C26: a setMixValue(v) call writes v to the u_mixRatio uniform of every  *)
(* pass whose program declares it and writes nothing to any other pass,    *)
(* whatever names were looked up on the passes before the call.  Checked   *)
(* under RendererSpec.                                                     *)
(***************************************************************************)
C26_MixWrittenWhereDeclared ==
    [][ \A v \in MixInputs :
          SetMixValue(v) =>
              /\ Len(passes') = Len(passes)
              /\ \A k \in 1..Len(passes) :
                     IF "u_mixRatio" \in ProgramUniforms(passes[k].fragment)
                     THEN /\ "u_mixRatio" \in DOMAIN passes'[k].values
                          /\ passes'[k].values["u_mixRatio"] = v
                     ELSE passes'[k].values = passes[k].values ]_vars

\* both passes have drawn, so the sampler names were looked up on them, and
\* the mix pass alone holds the value of the setMixValue call just made
C26_Witness ==
    /\ initialized
    /\ needsRender
    /\ Len(passes) = 2
    /\ "u_texture0" \in passes[1].locations
    /\ "u_mixRatio" \notin passes[1].locations
    /\ "u_mixRatio" \notin DOMAIN passes[1].values
    /\ passes[2].values["u_mixRatio"] = 3

(***************************************************************************)
(* C30: a createPlaceholder(slot, ...) call leaves the cache entries,      *)
(* their slots and memoryUsage as they were, whatever the slot holds.      *)
(* Checked under ManagerSpec.                                              *)
(***************************************************************************)
C30_PlaceholderBypassesCache ==
    [][ \A slot \in SlotArgs :
          CreatePlaceholder(slot) =>
              /\ cache' = cache
              /\ currentSize' = currentSize ]_vars

(***************************************************************************)
(* C29: an fbo.resize(width, height) call keeps the FBO's framebuffer and  *)
(* texture handles; no GPU object is created or deleted, and only the      *)
(* width, the height and the texture's storage of that FBO change.         *)
(* Checked under GpuSpec.                                                  *)
(***************************************************************************)
C29_ResizeKeepsIdentity ==
    [][ \A f \in FboInstances : \A w, h \in FboDims :
          FboResize(f, w, h) =>
              /\ gpuLive' = gpuLive
              /\ gpuNext' = gpuNext
              /\ \E g \in gpuFbos' :
                     /\ g.fbo = f.fbo
                     /\ g.texture = f.texture
                     /\ g.width = w /\ g.height = h
                     /\ g.storage = <<w, h>>
                     /\ gpuFbos' \ {g} = gpuFbos \ {f} ]_vars

\* the last call was a resize of a live FBO, next to a second FBO
C29_Witness ==
    /\ gpuRet.op = "resize"
    /\ Cardinality(gpuFbos) = 2
    /\ \E g \in gpuFbos :
           /\ g.width = 2 /\ g.height = 0
           /\ g.storage = <<2, 0>>
           /\ g.fbo \in gpuLive
           /\ g.texture \in gpuLive
    /\ \A g \in gpuFbos : g.fbo.id < 5

(***************************************************************************)
(* UniformSpec: one UniformManager (uniform-manager.ts) on a linked        *)
(* program.                                                                *)
(***************************************************************************)
\* gl.getUniformLocation calls counted per name
MaxLookups == 2

\* fragment shaders a program is linked from
UmFragments == {"sample-fragment", "mix-simple-fragment"}

\* numbers handed to the setters
UmNumbers == {0, 1}

\* the manager as a value
UM ==
    [program   |-> umProgram,
     locations |-> umLocations,
     values    |-> umValues,
     queries   |-> umQueries]

SetUM(um) ==
    /\ umProgram' = um.program
    /\ umLocations' = um.locations
    /\ umValues' = um.values
    /\ umQueries' = um.queries

\* gl.getUniformLocation(program, name): null for a name the program does
\* not declare
glGetUniformLocation(program, name) ==
    IF name \in ProgramUniforms(program) THEN name ELSE "null"

\* variant: the location is asked from the GPU on every call
getLocation_uncached(um, name) ==
    LET loc == glGetUniformLocation(um.program, name)
    IN  [um |-> [um EXCEPT !.locations = (name :> loc) @@ @,
                           !.queries[name] = @ + 1],
         loc |-> loc]

\* getLocation(name): lines 14-22
getLocation(um, name) ==
    IF name \in DOMAIN um.locations
    THEN [um |-> um, loc |-> um.locations[name]]
    ELSE LET loc == glGetUniformLocation(um.program, name)
         IN  [um |-> [um EXCEPT !.locations = (name :> loc) @@ @,
                                !.queries[name] = @ + 1],
              loc |-> loc]

\* gl.uniform1f / uniform2f / uniform1i on a location
glUniform(um, loc, kind, value) ==
    [um EXCEPT !.values = (loc :> [kind |-> kind, value |-> value]) @@ @]

\* the body shared by setFloat (lines 34-40), setVec2 (lines 45-51) and
\* setInt (lines 56-62)
setAny(um, name, kind, value) ==
    LET got == getLocation(um, name)
    IN  [um |-> IF got.loc # "null"
                THEN glUniform(got.um, got.loc, kind, value)
                ELSE got.um,
         loc |-> got.loc]

setFloat(um, name, value) == setAny(um, name, "1f", <<value>>)
setVec2(um, name, x, y) == setAny(um, name, "2f", <<x, y>>)
setInt(um, name, value) == setAny(um, name, "1i", <<value>>)

\* room for one more GPU lookup of the name
LookupBudget(name) ==
    name \in DOMAIN umLocations \/ umQueries[name] < MaxLookups

\* new UniformManager(gl, program): lines 6-9
UmConstruct(fragment) ==
    /\ umProgram = "none"
    /\ umProgram' = fragment
    /\ umRet' = [op |-> "new", name |-> "none", loc |-> "null"]
    /\ UNCHANGED <<umLocations, umValues, umQueries, now, umOtherVars>>

\* the effect of a call on the manager and what it got as location
UmCall(op, name, res) ==
    /\ SetUM(res.um)
    /\ umRet' = [op |-> op, name |-> name, loc |-> res.loc]
    /\ UNCHANGED <<now, umOtherVars>>

UmGetLocation(name) ==
    /\ umProgram # "none"
    /\ LookupBudget(name)
    /\ UmCall("getLocation", name, getLocation(UM, name))

UmSetFloat(name, value) ==
    /\ umProgram # "none"
    /\ LookupBudget(name)
    /\ UmCall("setFloat", name, setFloat(UM, name, value))

UmSetVec2(name, x, y) ==
    /\ umProgram # "none"
    /\ LookupBudget(name)
    /\ UmCall("setVec2", name, setVec2(UM, name, x, y))

UmSetInt(name, value) ==
    /\ umProgram # "none"
    /\ LookupBudget(name)
    /\ UmCall("setInt", name, setInt(UM, name, value))

UInit == Init

UNext ==
    \/ \E fragment \in UmFragments : UmConstruct(fragment)
    \/ \E name \in UmNames : UmGetLocation(name)
    \/ \E name \in UmNames : \E v \in UmNumbers : UmSetFloat(name, v)
    \/ \E name \in UmNames : \E x, y \in UmNumbers : UmSetVec2(name, x, y)
    \/ \E name \in UmNames : \E v \in UmNumbers : UmSetInt(name, v)

UniformSpec == UInit /\ [][UNext]_vars

(***************************************************************************)
(* C21: a setFloat, setVec2 or setInt call on a name the program does not  *)
(* declare returns normally and writes no uniform; the location of a name  *)
(* is asked from the GPU at most once, and a call on a name that is cached *)
(* asks nothing.  Checked under UniformSpec.                               *)
(***************************************************************************)
C21_MissingUniformIgnored ==
    /\ [](\A name \in UmNames : umQueries[name] <= 1)
    /\ [][ \A name \in UmNames : \A x, y \in UmNumbers :
             (UmSetFloat(name, x) \/ UmSetInt(name, x)
                  \/ UmSetVec2(name, x, y)) =>
                 /\ name \notin ProgramUniforms(umProgram) =>
                        /\ umValues' = umValues
                        /\ umRet'.loc = "null"
                 /\ name \in DOMAIN umLocations => umQueries' = umQueries
           ]_vars

\* a setter was called on an undeclared name whose null location was
\* already cached: one GPU lookup was made and nothing was written
C21_Witness ==
    /\ umRet = [op |-> "setFloat", name |-> "u_missing", loc |-> "null"]
    /\ umQueries["u_missing"] = 1
    /\ umLocations["u_missing"] = "null"
    /\ DOMAIN umLocations = {"u_missing"}
    /\ umValues = <<>>

(***************************************************************************)
(* RenderPass (render-pass.ts) over the state of the GL context: the bound *)
(* framebuffer (0 is the default framebuffer, the canvas), the viewport,   *)
(* the active texture unit and the texture bound to each unit.  A source   *)
(* is [kind |-> "texture", texture |-> t] or [kind |-> "fbo", id |-> f], a *)
(* destination is [kind |-> "fbo", id |-> f] or [kind |-> "canvas"].       *)
(***************************************************************************)
\* FBO and RenderPass objects alive at a time
MaxFbos == 2
MaxPasses == 1

\* a texture made elsewhere (TextureManager) and handed in as a source
SourceTextures == {91}

\* the names a pass and WebGLRenderer hand to the pass's UniformManager
PassNames ==
    {"u_texture0", "u_texture1", "u_canvasResolution", "u_mixRatio"}

\* new UniformManager(gl, program): uniform-manager.ts lines 6-9
newUniforms(fragment) ==
    [program |-> fragment, locations |-> <<>>, values |-> <<>>,
     queries |-> [n \in PassNames |-> 0]]

\* new FBO(gl, width, height), fbo.ts lines 9-34: the framebuffer and its
\* texture are created and bound, and both bindings are reset at the end
fboConstruct(g, next, width, height) ==
    [g    |-> [g EXCEPT !.framebuffer = 0, !.units[g.active] = NULL],
     id   |-> next,
     fbo  |-> [texture |-> next + 1, width |-> width, height |-> height],
     next |-> next + 2]

\* FBO.bind(): fbo.ts lines 36-39
fboBind(g, fbos, id) ==
    [g EXCEPT !.framebuffer = id,
              !.viewport = <<fbos[id].width, fbos[id].height>>]

\* the texture a source stands for: render-pass.ts lines 84-88
sourceTexture(fbos, src) ==
    IF src.kind = "fbo" THEN fbos[src.id].texture ELSE src.texture

\* the forEach of draw(), lines 82-90, from source i on
RECURSIVE bindSourceUnits(_, _, _, _, _)
bindSourceUnits(g, um, fbos, sources, i) ==
    IF i >= Len(sources) THEN [g |-> g, um |-> um]
    ELSE bindSourceUnits(
             [g EXCEPT !.active = i,
                       !.units[i] = sourceTexture(fbos, sources[i + 1])],
             setInt(um, SamplerName(i), i).um, fbos, sources, i + 1)

\* variant: the units are counted from 1
RECURSIVE bindSourceUnits_shifted(_, _, _, _, _)
bindSourceUnits_shifted(g, um, fbos, sources, i) ==
    IF i >= Len(sources) THEN [g |-> g, um |-> um]
    ELSE bindSourceUnits_shifted(
             [g EXCEPT !.active = (i + 1) % 2,
                       !.units[(i + 1) % 2] =
                           sourceTexture(fbos, sources[i + 1])],
             setInt(um, SamplerName(i), (i + 1) % 2).um, fbos, sources,
             i + 1)

\* what gl.drawArrays and gl.clear act on
glEvent(op, g, pass, samplers, vertices) ==
    [op |-> op, framebuffer |-> g.framebuffer, viewport |-> g.viewport,
     units |-> g.units, samplers |-> samplers, vertices |-> vertices,
     pass |-> pass]

\* variant of draw() that counts the units from 1
passDraw_shifted(g, fbos, canvas, pass, k) ==
    LET dst == pass.destination
        g1  == IF dst.kind = "fbo" THEN fboBind(g, fbos, dst.id)
               ELSE [g EXCEPT !.framebuffer = 0]
        g2  == [g1 EXCEPT !.viewport =
                   IF dst.kind = "fbo"
                   THEN <<fbos[dst.id].width, fbos[dst.id].height>>
                   ELSE <<canvas.width, canvas.height>>]
        b   == bindSourceUnits_shifted(g2, pass.uniforms, fbos,
                                       pass.sources, 0)
    IN  [g     |-> b.g,
         pass  |-> [pass EXCEPT !.uniforms = b.um],
         event |-> glEvent("draw", b.g, k, b.um.values, 6)]

\* RenderPass.draw(): render-pass.ts lines 66-95
passDraw(g, fbos, canvas, pass, k) ==
    LET dst == pass.destination
        g1  == IF dst.kind = "fbo" THEN fboBind(g, fbos, dst.id)
               ELSE [g EXCEPT !.framebuffer = 0]
        g2  == [g1 EXCEPT !.viewport =
                   IF dst.kind = "fbo"
                   THEN <<fbos[dst.id].width, fbos[dst.id].height>>
                   ELSE <<canvas.width, canvas.height>>]
        b   == bindSourceUnits(g2, pass.uniforms, fbos, pass.sources, 0)
    IN  [g     |-> b.g,
         pass  |-> [pass EXCEPT !.uniforms = b.um],
         event |-> glEvent("draw", b.g, k, b.um.values, 6)]

\* variant: nothing is returned for any destination
getOutputTexture_none(fbos, pass) == NULL

\* RenderPass.getOutputTexture(): render-pass.ts lines 98-101
getOutputTexture(fbos, pass) ==
    IF pass.destination.kind = "fbo"
    THEN fbos[pass.destination.id].texture
    ELSE NULL

\* the sources and destinations a pass can be built from
PassSourceItems ==
    [kind : {"texture"}, texture : SourceTextures]
        \cup [kind : {"fbo"}, id : DOMAIN ppFbos]
PassSources ==
    {<<>>} \cup {<<a>> : a \in PassSourceItems}
           \cup {<<a, b>> : a, b \in PassSourceItems}
PassDestinations ==
    {[kind |-> "canvas"]} \cup [kind : {"fbo"}, id : DOMAIN ppFbos]

PassUnchanged == UNCHANGED <<ppInitialized, ppNeedsRender, ppRaf, ppInits,
                             now, ppOtherVars>>

\* new FBO(gl, width, height)
PpNewFbo(size) ==
    /\ Cardinality(DOMAIN ppFbos) < MaxFbos
    /\ LET c == fboConstruct(ppGl, ppNext, size[1], size[2])
       IN  /\ ppGl' = c.g
           /\ ppFbos' = (c.id :> c.fbo) @@ ppFbos
           /\ ppNext' = c.next
           /\ ppRet' = [op |-> "newFBO", value |-> c.id]
    /\ ppLog' = <<>>
    /\ UNCHANGED <<ppCanvas, ppPasses>>
    /\ PassUnchanged

\* FBO.resize(width, height): fbo.ts lines 45-61
PpFboResize(id, size) ==
    /\ id \in DOMAIN ppFbos
    /\ ppFbos' = [ppFbos EXCEPT ![id].width = size[1],
                                ![id].height = size[2]]
    /\ ppGl' = [ppGl EXCEPT !.units[ppGl.active] = NULL]
    /\ ppRet' = [op |-> "resize", value |-> id]
    /\ ppLog' = <<>>
    /\ UNCHANGED <<ppCanvas, ppPasses, ppNext>>
    /\ PassUnchanged

\* the host gives the canvas another size
PpCanvasResize(size) ==
    /\ ppCanvas' = [width |-> size[1], height |-> size[2]]
    /\ ppRet' = [op |-> "canvasResize", value |-> NULL]
    /\ ppLog' = <<>>
    /\ UNCHANGED <<ppFbos, ppPasses, ppNext, ppGl>>
    /\ PassUnchanged

\* new RenderPass(gl, vertexSource, fragmentSource, sources, destination):
\* render-pass.ts lines 22-39
PpNewPass(fragment, sources, destination) ==
    /\ Len(ppPasses) < MaxPasses
    /\ sources \in PassSources
    /\ destination \in PassDestinations
    /\ ppPasses' = Append(ppPasses,
                          [fragment |-> fragment, sources |-> sources,
                           destination |-> destination,
                           uniforms |-> newUniforms(fragment)])
    /\ ppRet' = [op |-> "newPass", value |-> Len(ppPasses) + 1]
    /\ ppLog' = <<>>
    /\ UNCHANGED <<ppCanvas, ppFbos, ppNext, ppGl>>
    /\ PassUnchanged

\* pass.draw()
PpDraw(k) ==
    /\ k \in 1..Len(ppPasses)
    /\ LET d == passDraw(ppGl, ppFbos, ppCanvas, ppPasses[k], k)
       IN  /\ ppGl' = d.g
           /\ ppPasses' = [ppPasses EXCEPT ![k] = d.pass]
           /\ ppLog' = <<d.event>>
    /\ ppRet' = [op |-> "draw", value |-> k]
    /\ UNCHANGED <<ppCanvas, ppFbos, ppNext>>
    /\ PassUnchanged

\* pass.getOutputTexture()
PpGetOutputTexture(k) ==
    /\ k \in 1..Len(ppPasses)
    /\ ppRet' = [op |-> "getOutputTexture",
                 value |-> getOutputTexture(ppFbos, ppPasses[k])]
    /\ ppLog' = <<>>
    /\ UNCHANGED <<ppCanvas, ppFbos, ppPasses, ppNext, ppGl>>
    /\ PassUnchanged

PassIds == 1..(2 * MaxFbos + 2)
PassSourceUniverse ==
    LET items == [kind : {"texture"}, texture : SourceTextures]
                     \cup [kind : {"fbo"}, id : PassIds]
    IN  {<<>>} \cup {<<a>> : a \in items} \cup {<<a, b>> : a, b \in items}
PassDestinationUniverse ==
    {[kind |-> "canvas"]} \cup [kind : {"fbo"}, id : PassIds]

PaInit == Init

PaNext ==
    \/ \E size \in FboSizes : PpNewFbo(size)
    \/ \E id \in PassIds, size \in FboSizes : PpFboResize(id, size)
    \/ \E size \in CanvasSizes : PpCanvasResize(size)
    \/ \E fragment \in UmFragments, sources \in PassSourceUniverse,
          destination \in PassDestinationUniverse :
          PpNewPass(fragment, sources, destination)
    \/ \E k \in 1..MaxPasses : PpDraw(k)
    \/ \E k \in 1..MaxPasses : PpGetOutputTexture(k)

PassSpec == PaInit /\ [][PaNext]_vars

\* C23: getOutputTexture() of a pass whose destination is an FBO returns
\* the color texture of that FBO, which is a texture and belongs to no
\* other FBO; of a pass whose destination is the canvas it returns null.
C23_OutputTextureOfDestination ==
    [][ \A k \in 1..MaxPasses :
          PpGetOutputTexture(k) =>
            LET dst == ppPasses[k].destination
            IN  IF dst.kind = "fbo"
                THEN /\ ppRet'.value = ppFbos[dst.id].texture
                     /\ ppRet'.value # NULL
                     /\ \A f \in DOMAIN ppFbos \ {dst.id} :
                          ppFbos[f].texture # ppRet'.value
                ELSE ppRet'.value = NULL ]_vars

\* the output texture of a pass that renders into the second of two FBOs
\* was asked for
C23_Witness ==
    /\ ppRet.op = "getOutputTexture"
    /\ Cardinality(DOMAIN ppFbos) = 2
    /\ Len(ppPasses) = 1
    /\ ppPasses[1].destination = [kind |-> "fbo", id |-> 3]
    /\ ppRet.value = 4

\* C28: draw() issues one draw call of 6 vertices, and at that call the
\* destination is bound (the pass's FBO, or the default framebuffer for the
\* canvas), the viewport is the destination's width and height, texture
\* unit i holds source i, and the program's u_texture<i>, where it declares
\* one, is i.
C28_DrawBindsDestinationAndSources ==
    [][ \A k \in 1..MaxPasses :
          PpDraw(k) =>
            LET pass == ppPasses[k]
                dst  == pass.destination
                e    == ppLog'[1]
            IN  /\ Len(ppLog') = 1
                /\ e.op = "draw"
                /\ e.vertices = 6
                /\ e.framebuffer = IF dst.kind = "fbo" THEN dst.id ELSE 0
                /\ e.viewport =
                       IF dst.kind = "fbo"
                       THEN <<ppFbos[dst.id].width, ppFbos[dst.id].height>>
                       ELSE <<ppCanvas.width, ppCanvas.height>>
                /\ \A i \in 0..(Len(pass.sources) - 1) :
                     /\ e.units[i] = sourceTexture(ppFbos, pass.sources[i + 1])
                     /\ SamplerName(i) \in ProgramUniforms(pass.fragment) =>
                          /\ SamplerName(i) \in DOMAIN e.samplers
                          /\ e.samplers[SamplerName(i)].value = <<i>> ]_vars

\* a pass with a texture and an FBO as sources was drawn into a resized FBO
\* while another framebuffer size was that of the canvas
C28_Witness ==
    /\ ppRet.op = "draw"
    /\ Len(ppLog) = 1
    /\ Len(ppPasses) = 1
    /\ ppPasses[1].fragment = "mix-simple-fragment"
    /\ ppPasses[1].sources = <<[kind |-> "texture", texture |-> 91],
                               [kind |-> "fbo", id |-> 1]>>
    /\ ppPasses[1].destination = [kind |-> "fbo", id |-> 3]
    /\ ppLog[1].framebuffer = 3
    /\ ppLog[1].viewport = <<1, 2>>
    /\ ppCanvas = [width |-> 2, height |-> 1]
    /\ ppLog[1].units = (0 :> 91) @@ (1 :> 2)
    /\ ppLog[1].samplers["u_texture1"].value = <<1>>

(***************************************************************************)
(* The frame of WebGLRenderer (webgl-renderer.ts) as GL calls: init()      *)
(* builds the chain of two passes over one FBO, render() clears and draws  *)
(* the passes.                                                             *)
(***************************************************************************)
\* what a frame works on
Frame ==
    [g |-> ppGl, passes |-> ppPasses, log |-> <<>>,
     needsRender |-> ppNeedsRender]

\* the loop of render(), lines 102-104, from pass k on
RECURSIVE drawPasses(_, _, _, _)
drawPasses(fr, fbos, canvas, k) ==
    IF k > Len(fr.passes) THEN fr
    ELSE LET d == passDraw(fr.g, fbos, canvas, fr.passes[k], k)
         IN  drawPasses([fr EXCEPT !.g = d.g, !.passes[k] = d.pass,
                                   !.log = Append(@, d.event)],
                        fbos, canvas, k + 1)

\* the passes from pass k down to the first
RECURSIVE drawPasses_reversed(_, _, _, _)
drawPasses_reversed(fr, fbos, canvas, k) ==
    IF k < 1 THEN fr
    ELSE LET d == passDraw(fr.g, fbos, canvas, fr.passes[k], k)
         IN  drawPasses_reversed([fr EXCEPT !.g = d.g, !.passes[k] = d.pass,
                                            !.log = Append(@, d.event)],
                                 fbos, canvas, k - 1)

\* variant of render() that draws the last pass first
frameRender_reversed(fr, fbos, canvas, isInitialized) ==
    IF ~isInitialized \/ ~fr.needsRender THEN fr
    ELSE [drawPasses_reversed(
              [fr EXCEPT !.log = <<glEvent("clear", fr.g, 0, <<>>, 0)>>],
              fbos, canvas, Len(fr.passes))
          EXCEPT !.needsRender = FALSE]

\* render(): webgl-renderer.ts lines 92-109; gl.clear acts on the
\* framebuffer that is bound when it is called
frameRender(fr, fbos, canvas, isInitialized) ==
    IF ~isInitialized \/ ~fr.needsRender THEN fr
    ELSE [drawPasses(
              [fr EXCEPT !.log = <<glEvent("clear", fr.g, 0, <<>>, 0)>>],
              fbos, canvas, 1)
          EXCEPT !.needsRender = FALSE]

FrameUnchanged == UNCHANGED <<now, ppOtherVars>>

\* init(): lines 24-64.  createPlaceholder(slot, ...) leaves its texture
\* bound to unit `slot` (texture-manager-new.ts lines 140-144)
PpInit ==
    /\ ppInits < MaxInits
    /\ ppInits' = ppInits + 1
    /\ LET bgTex == ppNext
           fgTex == ppNext + 1
           g1    == [ppGl EXCEPT !.active = 1, !.units[0] = bgTex,
                                 !.units[1] = fgTex]
           c     == fboConstruct(g1, ppNext + 2, ppCanvas.width,
                                 ppCanvas.height)
           pass0 == [fragment |-> "sample-fragment",
                     sources |-> <<[kind |-> "texture", texture |-> bgTex]>>,
                     destination |-> [kind |-> "fbo", id |-> c.id],
                     uniforms |->
                         setVec2(newUniforms("sample-fragment"),
                                 "u_canvasResolution", ppCanvas.width,
                                 ppCanvas.height).um]
           pass1 == [fragment |-> "mix-simple-fragment",
                     sources |->
                         <<[kind |-> "texture", texture |-> c.fbo.texture],
                           [kind |-> "texture", texture |-> fgTex]>>,
                     destination |-> [kind |-> "canvas"],
                     uniforms |->
                         setFloat(newUniforms("mix-simple-fragment"),
                                  "u_mixRatio", 5).um]
           fbos  == (c.id :> c.fbo) @@ ppFbos
           fr    == frameRender(
                        [Frame EXCEPT !.g = c.g,
                                      !.passes = ppPasses \o <<pass0, pass1>>],
                        fbos, ppCanvas, TRUE)
       IN  /\ ppFbos' = fbos
           /\ ppNext' = c.next
           /\ ppGl' = fr.g
           /\ ppPasses' = fr.passes
           /\ ppLog' = fr.log
           /\ ppNeedsRender' = fr.needsRender
    /\ ppInitialized' = TRUE
    /\ ppRet' = [op |-> "init", value |-> NULL]
    /\ UNCHANGED <<ppCanvas, ppRaf>>
    /\ FrameUnchanged

\* requestRender(): lines 82-90
PpRequestRender ==
    /\ ppRaf < MaxRequests
    /\ IF ~ppNeedsRender
       THEN ppNeedsRender' = TRUE /\ ppRaf' = ppRaf + 1
       ELSE UNCHANGED <<ppNeedsRender, ppRaf>>
    /\ ppRet' = [op |-> "requestRender", value |-> NULL]
    /\ ppLog' = <<>>
    /\ UNCHANGED <<ppCanvas, ppFbos, ppPasses, ppNext, ppGl, ppInitialized,
                   ppInits>>
    /\ FrameUnchanged

\* the callback of requestRender at an animation frame: lines 85-88
PpFrame ==
    /\ ppRaf > 0
    /\ ppRaf' = ppRaf - 1
    /\ LET fr == frameRender(Frame, ppFbos, ppCanvas, ppInitialized)
       IN  /\ ppGl' = fr.g
           /\ ppPasses' = fr.passes
           /\ ppLog' = fr.log
    /\ ppNeedsRender' = FALSE
    /\ ppRet' = [op |-> "frame", value |-> NULL]
    /\ UNCHANGED <<ppCanvas, ppFbos, ppNext, ppInitialized, ppInits>>
    /\ FrameUnchanged

\* destroy(): lines 111-115
PpDestroy ==
    /\ ppInitialized' = FALSE
    /\ ppPasses' = <<>>
    /\ ppRet' = [op |-> "destroy", value |-> NULL]
    /\ ppLog' = <<>>
    /\ UNCHANGED <<ppCanvas, ppFbos, ppNext, ppGl, ppNeedsRender, ppRaf,
                   ppInits>>
    /\ FrameUnchanged

FrInit == Init

FrNext ==
    \/ PpInit
    \/ PpRequestRender
    \/ PpFrame
    \/ PpDestroy
    \/ \E size \in CanvasSizes : PpCanvasResize(size)

FrameSpec == FrInit /\ [][FrNext]_vars

\* the FBO whose color texture is t, as a set
FboOfTexture(t) == {f \in DOMAIN ppFbos : ppFbos[f].texture = t}

\* the textures the draw call of event e samples
EventReads(e) ==
    {e.units[i - 1] : i \in 1..Len(ppPasses[e.pass].sources)}

SurfaceNames ==
    {"u_texture", "u_texResolution", "u_canvasResolution", "u_inputTexture",
     "u_mixRatio"}

\* new RenderPass(gl, vertexSource, fragmentSource, width, height),
\* part_009 lines 18-70: initFramebuffer leaves the new texture bound to the
\* active unit and the default framebuffer bound
ownedPass(g, next, fragment, width, height) ==
    [g    |-> [g EXCEPT !.framebuffer = 0, !.units[g.active] = next + 1],
     pass |-> [fragment |-> fragment, width |-> width, height |-> height,
               fbo |-> next, outputTexture |-> next + 1,
               uniforms |-> [newUniforms(fragment) EXCEPT
                                !.queries = [n \in SurfaceNames |-> 0]]],
     next |-> next + 2]

\* RenderPass.initFinalBlit(gl, canvasWidth, canvasHeight) of part_009,
\* lines 112-123, has no caller: no blit pass exists in any state

\* variant of one round of the loop in which a last pass of another size
\* than the canvas is followed by a draw of its output into the canvas
surfacePass_blit(fr, canvas, i) ==
    LET pass   == fr.passes[i]
        isLast == i = Len(fr.passes)
        fits   == pass.width = canvas.width /\ pass.height = canvas.height
        g1     == [fr.g EXCEPT !.framebuffer =
                       IF isLast /\ fits THEN 0 ELSE pass.fbo,
                               !.viewport = <<pass.width, pass.height>>]
        clear  == glEvent("clear", g1, i, <<>>, 0)
        g2     == IF i > 1
                  THEN [g1 EXCEPT !.active = 0,
                                  !.units[0] = fr.passes[i - 1].outputTexture]
                  ELSE g1
        um     == IF i > 1
                  THEN setInt(pass.uniforms, "u_inputTexture", 0).um
                  ELSE pass.uniforms
        g3     == [g2 EXCEPT !.framebuffer = 0,
                             !.viewport = <<canvas.width, canvas.height>>,
                             !.active = 0, !.units[0] = pass.outputTexture]
    IN  IF isLast /\ ~fits
        THEN [fr EXCEPT !.g = g3, !.passes[i].uniforms = um,
                        !.log = @ \o <<clear,
                                       glEvent("draw", g2, i, um.values, 6),
                                       glEvent("draw", g3, 0, <<>>, 6)>>]
        ELSE [fr EXCEPT !.g = g2, !.passes[i].uniforms = um,
                        !.log = @ \o <<clear,
                                       glEvent("draw", g2, i, um.values, 6)>>]

\* one round of the loop of render(), fbo.ts lines 174-196, with
\* RenderPass.draw() of part_009 lines 106-110
surfacePass(fr, canvas, i) ==
    LET pass   == fr.passes[i]
        isLast == i = Len(fr.passes)
        renderToCanvas ==
            isLast /\ pass.width = canvas.width
                   /\ pass.height = canvas.height
        g1     == [fr.g EXCEPT !.framebuffer =
                       IF renderToCanvas THEN 0 ELSE pass.fbo,
                               !.viewport = <<pass.width, pass.height>>]
        clear  == glEvent("clear", g1, i, <<>>, 0)
        g2     == IF i > 1
                  THEN [g1 EXCEPT !.active = 0,
                                  !.units[0] = fr.passes[i - 1].outputTexture]
                  ELSE g1
        um     == IF i > 1
                  THEN setInt(pass.uniforms, "u_inputTexture", 0).um
                  ELSE pass.uniforms
    IN  [fr EXCEPT !.g = g2, !.passes[i].uniforms = um,
                   !.log = @ \o <<clear,
                                  glEvent("draw", g2, i, um.values, 6)>>]

\* render(): fbo.ts lines 166-199, from pass i on
RECURSIVE surfaceRender(_, _, _)
surfaceRender(fr, canvas, i) ==
    IF i > Len(fr.passes) THEN fr
    ELSE surfaceRender(surfacePass(fr, canvas, i), canvas, i + 1)

\* init(): fbo.ts lines 88-153.  createPlaceholder(index, ...) leaves its
\* texture bound to unit `index` (texture-manager.ts lines 22-26); the
\* render() at the end draws a frame and starts a loop of animation frames
SfInit ==
    /\ ppInits < MaxInits
    /\ ppInits' = ppInits + 1
    /\ LET g1 == [ppGl EXCEPT !.active = 1, !.units[0] = ppNext,
                              !.units[1] = ppNext + 1]
           c  == ownedPass(g1, ppNext + 2, "aspect-fragment",
                           ppCanvas.width, ppCanvas.height)
           u1 == setInt(c.pass.uniforms, "u_texture", 0).um
           u2 == setVec2(u1, "u_texResolution", 1080, 1920).um
           u3 == setVec2(u2, "u_canvasResolution", ppCanvas.width,
                         ppCanvas.height).um
           fr == surfaceRender(
                     [Frame EXCEPT !.g = c.g,
                                   !.passes = Append(ppPasses,
                                       [c.pass EXCEPT !.uniforms = u3])],
                     ppCanvas, 1)
       IN  /\ ppNext' = c.next
           /\ ppGl' = fr.g
           /\ ppPasses' = fr.passes
           /\ ppLog' = fr.log
    /\ ppInitialized' = TRUE
    /\ ppRaf' = ppRaf + 1
    /\ ppRet' = [op |-> "init", value |-> NULL]
    /\ UNCHANGED <<ppCanvas, ppFbos, ppNeedsRender>>
    /\ FrameUnchanged

\* setMixValue(value): fbo.ts lines 155-159, value in tenths
SfSetMixValue(value) ==
    /\ IF Len(ppPasses) = 0
       THEN UNCHANGED ppPasses
       ELSE ppPasses' =
                [ppPasses EXCEPT ![1].uniforms =
                    setFloat(@, "u_mixRatio",
                             IF value < 0 THEN 0
                             ELSE IF value > 10 THEN 10 ELSE value).um]
    /\ ppRet' = [op |-> "setMixValue", value |-> NULL]
    /\ ppLog' = <<>>
    /\ UNCHANGED <<ppCanvas, ppFbos, ppNext, ppGl, ppInitialized,
                   ppNeedsRender, ppRaf, ppInits>>
    /\ FrameUnchanged

\* render as the callback of an animation frame; it schedules itself again
SfFrame ==
    /\ ppRaf > 0
    /\ LET fr == IF ppInitialized THEN surfaceRender(Frame, ppCanvas, 1)
                 ELSE Frame
       IN  /\ ppGl' = fr.g
           /\ ppPasses' = fr.passes
           /\ ppLog' = fr.log
    /\ ppRet' = [op |-> "frame", value |-> NULL]
    /\ UNCHANGED <<ppCanvas, ppFbos, ppNext, ppInitialized, ppNeedsRender,
                   ppRaf, ppInits>>
    /\ FrameUnchanged

\* destroy(): fbo.ts lines 201-204
SfDestroy ==
    /\ ppInitialized' = FALSE
    /\ ppRet' = [op |-> "destroy", value |-> NULL]
    /\ ppLog' = <<>>
    /\ UNCHANGED <<ppCanvas, ppFbos, ppPasses, ppNext, ppGl, ppNeedsRender,
                   ppRaf, ppInits>>
    /\ FrameUnchanged

SfStart == Init

SfNext ==
    \/ SfInit
    \/ \E value \in {-1, 5} : SfSetMixValue(value)
    \/ SfFrame
    \/ SfDestroy
    \/ \E size \in CanvasSizes : PpCanvasResize(size)

SurfaceSpec == SfStart /\ [][SfNext]_vars

\* C27: the last GL call of a frame draws into the canvas: it is the draw
\* of the last pass when that pass has the canvas's current size, and
\* otherwise the draw of a blit pass that samples the last pass's output.
C27_FrameReachesSurface ==
    ppRet.op \in {"init", "frame"} /\ ppInitialized /\ ppPasses # <<>> =>
        /\ ppLog # <<>>
        /\ LET e    == ppLog[Len(ppLog)]
               last == ppPasses[Len(ppPasses)]
           IN  /\ e.op = "draw"
               /\ e.framebuffer = 0
               /\ e.viewport = <<ppCanvas.width, ppCanvas.height>>
               /\ IF last.width = ppCanvas.width
                     /\ last.height = ppCanvas.height
                  THEN e.pass = Len(ppPasses)
                  ELSE /\ e.pass = 0
                       /\ e.units[0] = last.outputTexture

\* C31: every slot that holds a texture holds a placeholder or the texture
\* of exactly one cache entry, and no two cache entries have the same key.
C31_NoOrphanedSlots ==
    /\ \A slot \in DOMAIN textures :
         textures[slot] # NULL =>
           \/ textures[slot] \in placeholders
           \/ Cardinality({i \in 1..Len(cache) : cache[i].slot = slot}) = 1
    /\ \A i, j \in 1..Len(cache) : cache[i].url = cache[j].url => i = j

\* the sizes of the entries from position i on, added up
RECURSIVE SumSizes(_, _)
SumSizes(c, i) == IF i > Len(c) THEN 0 ELSE c[i].size + SumSizes(c, i + 1)

\* C32: getStats().memoryUsage is the sum of the sizes of the entries in
\* the cache.
C32_MemoryAccountingExact ==
    memoryUsage = SumSizes(cache, 1)

\* C33: on an initialized renderer, between calls, needsRender is true
\* exactly when one animation-frame callback is pending.
C33_FlagMatchesPendingFrame ==
    initialized => (needsRender <=> rafPending = 1)

(***************************************************************************)
(* The WebGLRendererService (WebGLRendererService.ts).  An instance of     *)
(* WebGLRenderer is the position of its record in wsInstances; init() has  *)
(* no `await` inside (webgl-renderer.ts lines 24-64), so it has run to its *)
(* end, or thrown, when getRenderer suspends at `await`.                   *)
(***************************************************************************)
\* WebGLRenderer instances a service makes
MaxRenderers == 3

\* what init() of a new WebGLRenderer does: it completes, or it throws at
\* its getContext (webgl-renderer.ts line 28) or in a RenderPass constructor
InitOutcomes == {"ready", "context", "pass"}

\* getRenderer(canvas) with a renderer held: lines 14-16
WsGetRendererHeld ==
    /\ wsRenderer # NULL
    /\ wsRet' = [status |-> "resolved", renderer |-> wsRenderer]
    /\ UNCHANGED <<wsRenderer, wsInstances, wsAwaiting, wsRegistered, now,
                   wsOtherVars>>

\* getRenderer(canvas) with no renderer held and a constructor that throws:
\* line 19
WsGetRendererNoContext ==
    /\ wsRenderer = NULL
    /\ wsRet' = [status |-> "rejected", renderer |-> NULL]
    /\ UNCHANGED <<wsRenderer, wsInstances, wsAwaiting, wsRegistered, now,
                   wsOtherVars>>

\* getRenderer(canvas) with no renderer held, up to its `await`:
\* lines 14-22
WsGetRendererNew(outcome) ==
    /\ wsRenderer = NULL
    /\ Len(wsInstances) < MaxRenderers
    /\ wsInstances' = Append(wsInstances,
                             [initialized |-> outcome = "ready",
                              destroyed |-> FALSE])
    /\ wsRenderer' = Len(wsInstances) + 1
    /\ wsAwaiting' = Append(wsAwaiting, [renderer |-> Len(wsInstances) + 1,
                                         threw |-> outcome # "ready"])
    /\ UNCHANGED <<wsRegistered, wsRet, now, wsOtherVars>>

\* getRenderer after its `await`: lines 22-28
WsGetRendererResumed(i) ==
    /\ i \in 1..Len(wsAwaiting)
    /\ wsAwaiting' = RemoveAt(wsAwaiting, i)
    /\ IF wsAwaiting[i].threw
       THEN /\ wsRet' = [status |-> "rejected", renderer |-> NULL]
            /\ UNCHANGED wsRegistered
       ELSE /\ wsRegistered' = wsRenderer
            /\ wsRet' = [status |-> "resolved", renderer |-> wsRenderer]
    /\ UNCHANGED <<wsRenderer, wsInstances, now, wsOtherVars>>

\* cleanup(): lines 61-66, with WebGLRenderer.destroy()
WsCleanup ==
    /\ wsRenderer # NULL
    /\ wsInstances' = [wsInstances EXCEPT ![wsRenderer].initialized = FALSE,
                                          ![wsRenderer].destroyed = TRUE]
    /\ wsRenderer' = NULL
    /\ UNCHANGED <<wsAwaiting, wsRegistered, wsRet, now, wsOtherVars>>

WsInit == Init

WsNext ==
    \/ WsGetRendererHeld
    \/ WsGetRendererNoContext
    \/ \E outcome \in InitOutcomes : WsGetRendererNew(outcome)
    \/ \E i \in 1..MaxRenderers : WsGetRendererResumed(i)
    \/ WsCleanup

RendererServiceSpec == WsInit /\ [][WsNext]_vars

\* C34: a getRenderer call that resolves hands out a renderer whose init()
\* completed; after an init() that threw the service holds no renderer, so
\* that the next call makes a new one.
C34_OnlyInitializedRenderers ==
    /\ wsRet.status = "resolved" =>
         /\ wsRet.renderer # NULL
         /\ wsInstances[wsRet.renderer].initialized
            \/ wsInstances[wsRet.renderer].destroyed
    /\ wsRenderer # NULL =>
         \/ wsInstances[wsRenderer].initialized
         \/ \E i \in 1..Len(wsAwaiting) : wsAwaiting[i].renderer = wsRenderer

\* C36: no texture resides in a slot whose index is maxSlots or more,
\* neither right after setMaxSlots(n) lowered the maximum nor after any
\* later load or createPlaceholder.
C36_NoTextureBeyondMaxSlots ==
    \A slot \in DOMAIN textures : slot >= maxSlots => textures[slot] = NULL

(***************************************************************************)
(* The WebGLRenderer under callers that load as many images through        *)
(* updateTexture as it takes to exceed the memory budget of its            *)
(* TextureManager.                                                         *)
(***************************************************************************)
\* images the renderer's manager turns into textures
MaxLoaded == 4

\* an image arrives while the exploration has room for its texture
BorrowLoadResolved(i) ==
    /\ glNextTexture <= 3 + MaxLoaded
    /\ UpdateLoadResolved(i)

BorrowNext ==
    \/ RendererInit
    \/ \E url \in Urls : UpdateTexture(0, url)
    \/ \E i \in 1..MaxInflight : UpdateResumed(i)
    \/ \E i \in 1..MaxInflight : BorrowLoadResolved(i)
    \/ \E i \in 1..MaxInflight : UpdateLoadRejected(i)
    \/ Tick
    \/ Destroy

BorrowSpec == RInit /\ [][BorrowNext]_vars

\* the textures in the source lists of the passes
PassSourceTextures ==
    UNION {{passes[k].sources[j] : j \in 1..Len(passes[k].sources)} :
               k \in 1..Len(passes)}

\* C35: while the renderer is initialized, no texture in the source list of
\* a pass has been deleted, whatever updateTexture calls loaded and
\* evicted.
C35_BorrowedTexturesAlive ==
    initialized => PassSourceTextures \cap glDeleted = {}

\* the fourth image exceeded the budget and the texture of the least
\* recently used image was deleted, on an initialized renderer
C35_Witness ==
    /\ initialized
    /\ Len(passes) = 2
    /\ Len(cache) = 3
    /\ glDeleted # {}
    /\ ret.status = "resolved"
    /\ PassSourceTextures = {1, 2, 3}

\* C37: an instance of the looping renderer runs at most one frame loop,
\* however often init() is called, and a frame callback that runs after
\* destroy() schedules no further callback, so that the loop ends.
C37_LoopStopsAndIsSingle ==
    /\ [](ppRaf <= 1)
    /\ [][ (SfFrame /\ ~ppInitialized) => ppRaf' < ppRaf ]_vars

====
